---- MODULE Spec2Model ----
(***************************************************************************)
(* The quiz page generated by src/bot.py (generate_html_quiz): the script  *)
(* of the HTML template, lines 389-901, as a state machine.  The state is  *)
(* the script's globals, the display state of the page elements the        *)
(* handlers read or write, localStorage and the Firebase attempt store.    *)
(* The attempt store is append-only and the session never reads it: the    *)
(* model keeps its number of records and the newest record.  The mode      *)
(* toggle (823-827) and the leaderboard (630-658, 828-831) are not modelled *)
(* here.  submitQuiz's scoring (661-708) is also modelled on its own, over  *)
(* any question list and any answers, and so is parse_txt_file (112-230),  *)
(* over texts made of a fixed set of lines.                                *)
(***************************************************************************)
EXTENDS Integers, Sequences, FiniteSets, TLC

\* ---------------------------------------------------------------- bounds
\* How far below zero the model follows the remaining-time counter.
MaxOverrun == 1
\* The page is not loaded again once the attempt store holds this many records.
MaxAttempts == 2
\* The longest question list scoring is run on.
MaxQuestions == 3
\* How many times scoring is run on one input.
MaxRuns == 2
\* The readings Date.now() gives are 1..MaxClock.
MaxClock == 2
\* The longest text, in lines, the parser is run on.
MaxLines == 4
\* The most answer lines a formatted block is given.
MaxAnswerLines == 2
\* The most attempts of one user the leaderboard is shown for.
MaxResults == 11
\* The most lines that follow the question line of a block of option lines.
MaxOptionLines == 7
\* The most quizzes the bot generates in one chat.
MaxQuizzes == 2

\* ------------------------------------------------------- injected values
\* const TOTAL_TIME_SECONDS = {seconds};
TOTAL_TIME_SECONDS == 2

\* const QUESTIONS = {questions_array}; ids are str(50000 + i + 1), the scores
\* are quiz_data["marks"] and quiz_data["negative"] (read with Number(...)),
\* opts is the set of option_k slots that are non-empty.
QUESTIONS ==
  << [id |-> "50001", answer |-> "2", opts |-> {1, 2}, correct_score |-> 3, negative_score |-> 1],
     [id |-> "50002", answer |-> "1", opts |-> {1},    correct_score |-> 3, negative_score |-> 1] >>

NoUser == "null"
Users == {"u1"}

\* String(n) for an option index.
Str(n) == <<"1", "2", "3", "4", "5">>[n]

VARIABLES
  page,              \* "script": the <script> in <head> is about to run; "running": it
                     \* ran and the auth observer is registered; "dead": it threw;
                     \* "redirected": the browser left for the login page
  currentUser, current, answers, markedForReview, seconds, timerInterval,
  quizInitialized,   \* window.quizInitialized
  shown,             \* elements with display other than none
  listeners,         \* attachListeners has run on this page
  results,           \* innerHTML of el("results"): <<>> or <<payload rendered>>
  lsState, lsResult, lsUid,   \* localStorage: QUIZ_STATE_KEY, QUIZ_RESULT_KEY, quiz_user_uid
  attempts,          \* attempt_history/QUIZ_TITLE: number of records and the newest one
  submitCalls,       \* history: submitQuiz() calls made on this page
  loadKind,          \* history: how initQuiz ended on this page
  abandonedAt,       \* history: remaining time of the Active page that was left
  questions,         \* the question list submitQuiz scores (QUESTIONS on the page)
  scored,            \* what the last submitQuiz run computed: its payload and accuracy
  content,           \* parse_txt_file's argument, as its lines
  parsed,            \* parse_txt_file's return value
  data,              \* attempt_history/QUIZ_TITLE as showLeaderboard reads it
  leaderboardBody,   \* innerHTML of leaderboardBody
  isQuiz,            \* the mode: Quiz (feedback at once) when TRUE, Test when FALSE
  optionClasses,     \* the rendered options that carry class "correct", and "wrong"
  conversation,      \* the bot's conversation with one user: its state, and as
                     \* history what it has accepted so far
  user_data,         \* context.user_data
  quizzes            \* the quiz files the bot has sent

scoringVars == << questions, scored >>
parserVars == << content, parsed >>
boardVars == << data, leaderboardBody >>
feedbackVars == << isQuiz, optionClasses >>
botVars == << conversation, user_data, quizzes >>

\* no option carries a feedback class
NoClasses == [correct |-> {}, wrong |-> {}]
\* no conversation: before /start and after ConversationHandler.END
NoConversation == [state |-> "END", accepted |-> << >>, reply |-> ""]
\* context.user_data with no key
NoUserData == [key \in {} |-> ""]

vars == << page, currentUser, current, answers, markedForReview, seconds, timerInterval,
           quizInitialized, shown, listeners, results, lsState, lsResult, lsUid,
           attempts, submitCalls, loadKind, abandonedAt, questions, scored,
           content, parsed, data, leaderboardBody, isQuiz, optionClasses,
           conversation, user_data, quizzes >>

N == Len(QUESTIONS)
EmptyAnswers == [x \in {} |-> "1"]
Put(f, k, v) == [x \in (DOMAIN f) \cup {k} |-> IF x = k THEN v ELSE f[x]]
Delete(f, k) == [x \in (DOMAIN f) \ {k} |-> f[x]]

\* q.id ?? i of the question at 0-based index i
Qid(i) == QUESTIONS[i + 1].id

\* ------------------------------------------------------------ the page
\* An element is rendered when it and its ancestors have a display other than
\* none: quizCard and results sit in quizContainer, the header buttons in
\* quizHeader, the navigation buttons in floatBar, confirm/cancel in submitModal.
Visible(e) ==
  /\ e \in shown
  /\ (e \in {"quizCard", "results"} => "quizContainer" \in shown)

\* The session's state as the page shows it: the question card is on screen
\* with its handlers attached (Active), the card has been taken off the
\* screen by submitQuiz/showSavedResult (Submitted), or neither yet (Loading).
Phase ==
  IF page = "running" /\ listeners /\ Visible("quizCard") THEN "Active"
  ELSE IF page = "running" /\ "quizCard" \notin shown THEN "Submitted"
  ELSE "Loading"

\* highlightPalette (859-880): the numbers its summary line shows (862-865,
\* 878). Every handler that assigns answers or markedForReview calls it
\* before it returns, so the line on screen is a function of the state.
HighlightPalette ==
  LET total == N
      attempted == Cardinality(DOMAIN answers)
      marked == Cardinality({ markedForReview[k] : k \in DOMAIN markedForReview })
  IN [total |-> total, attempted |-> attempted, marked |-> marked,
      notAttempted |-> total - attempted - marked]

\* ------------------------------------------------------- localStorage
\* A stored item: absent ("none"), text JSON.parse rejects ("corrupt"), or an
\* object ("json") of which `has` names the properties that are present.
\* `by` is history, not part of the item: the user whose session wrote it.
StateFields == {"current", "answers", "seconds", "markedForReview"}
NoState ==
  [kind |-> "none", has |-> {}, current |-> 0, answers |-> EmptyAnswers,
   seconds |-> 0, markedForReview |-> << >>, by |-> NoUser]
CorruptState == [NoState EXCEPT !.kind = "corrupt"]
\* a partially written snapshot: only current and answers made it
PartialState ==
  [NoState EXCEPT !.kind = "json", !.has = {"current", "answers"}, !.current = 1,
                  !.answers = Put(EmptyAnswers, "50001", "1")]

NoPayload ==
  [userId |-> NoUser, score |-> 0, maxMarks |-> 0, correct |-> 0, wrong |-> 0,
   unattempted |-> 0, timeTaken |-> 0, userAnswers |-> EmptyAnswers]
\* a Result stored by an earlier visit
StoredPayload ==
  [userId |-> "u1", score |-> 3, maxMarks |-> 6, correct |-> 1, wrong |-> 0,
   unattempted |-> 1, timeTaken |-> 1, userAnswers |-> Put(EmptyAnswers, "50001", "2")]

NoResult == [kind |-> "none", submitted |-> FALSE, resultHTML |-> << >>]
CorruptResult == [NoResult EXCEPT !.kind = "corrupt"]
StoredResult == [kind |-> "json", submitted |-> TRUE, resultHTML |-> << StoredPayload >>]

\* saveQuizState(): the object handed to JSON.stringify; Array.from(set) lists a
\* Set in insertion order, which is how markedForReview is kept here.
SaveQuizState ==
  [kind |-> "json", has |-> StateFields, current |-> current, answers |-> answers,
   seconds |-> seconds, markedForReview |-> markedForReview, by |-> currentUser]

\* new Set(array): the elements in order of first appearance
RECURSIVE NewSet(_)
NewSet(arr) ==
  IF arr = << >> THEN << >>
  ELSE LET front == NewSet(SubSeq(arr, 1, Len(arr) - 1))
           x == arr[Len(arr)]
       IN IF \E j \in 1..Len(front) : front[j] = x THEN front ELSE Append(front, x)

Has(set, x) == \E j \in 1..Len(set) : set[j] = x
SetDelete(set, x) == SelectSeq(set, LAMBDA y : y # x)

\* initQuiz lines 507-514: what the globals become for a stored snapshot s
\* that JSON.parse accepted (x ?? d is d exactly when x is missing).
RestoreCurrent(s) == IF "current" \in s.has THEN s.current ELSE 0
RestoreAnswers(s) == IF "answers" \in s.has THEN s.answers ELSE EmptyAnswers
RestoreSecondsReset(s) == TOTAL_TIME_SECONDS
RestoreSeconds(s) == IF "seconds" \in s.has THEN s.seconds ELSE TOTAL_TIME_SECONDS
RestoreMarked(s) ==
  IF "markedForReview" \in s.has THEN NewSet(s.markedForReview) ELSE << >>

\* ------------------------------------------------------------ scoring
TallyStartCarried ==
  [correct |-> scored.correct, wrong |-> scored.wrong, totalMarks |-> scored.score,
   maxMarks |-> scored.maxMarks]
\* let correct = 0, wrong = 0, totalMarks = 0, maxMarks = 0 (664)
TallyStart == [correct |-> 0, wrong |-> 0, totalMarks |-> 0, maxMarks |-> 0]

AnsweredCorrectlyUnsetMatches(q, ans) ==
  q.id \in DOMAIN ans /\ (q.answer = "" \/ ans[q.id] = q.answer)
\* ans && String(ans) === String(q.answer) (668), ans being answers[q.id]
AnsweredCorrectly(q, ans) == q.id \in DOMAIN ans /\ ans[q.id] = q.answer

RECURSIVE SubmitQuizLoopNoNegative(_, _, _)
SubmitQuizLoopNoNegative(qs, ans, k) ==
  IF k = 0 THEN TallyStart
  ELSE LET t == SubmitQuizLoopNoNegative(qs, ans, k - 1)
           q == qs[k]
           m == [t EXCEPT !.maxMarks = @ + q.correct_score]
       IN IF AnsweredCorrectly(q, ans)
            THEN [m EXCEPT !.correct = @ + 1, !.totalMarks = @ + q.correct_score]
          ELSE IF q.id \in DOMAIN ans
            THEN [m EXCEPT !.wrong = @ + 1]
          ELSE m

\* submitQuiz lines 665-676: the forEach over the question list qs, question k of n
RECURSIVE SubmitQuizLoopWrongUnlessRight(_, _, _)
SubmitQuizLoopWrongUnlessRight(qs, ans, k) ==
  IF k = 0 THEN TallyStart
  ELSE LET t == SubmitQuizLoopWrongUnlessRight(qs, ans, k - 1)
           q == qs[k]
           m == [t EXCEPT !.maxMarks = @ + q.correct_score]
       IN IF AnsweredCorrectly(q, ans)
            THEN [m EXCEPT !.correct = @ + 1, !.totalMarks = @ + q.correct_score]
          ELSE [m EXCEPT !.wrong = @ + 1, !.totalMarks = @ - q.negative_score]

RECURSIVE SubmitQuizLoop(_, _, _)
SubmitQuizLoop(qs, ans, k) ==
  IF k = 0 THEN TallyStart
  ELSE LET t == SubmitQuizLoop(qs, ans, k - 1)
           q == qs[k]
           m == [t EXCEPT !.maxMarks = @ + q.correct_score]
       IN IF AnsweredCorrectly(q, ans)
            THEN [m EXCEPT !.correct = @ + 1, !.totalMarks = @ + q.correct_score]
          ELSE IF q.id \in DOMAIN ans
            THEN [m EXCEPT !.wrong = @ + 1, !.totalMarks = @ - q.negative_score]
          ELSE m

\* the forEach over the page's QUESTIONS
Tally(ans, k) == SubmitQuizLoop(QUESTIONS, ans, k)

\* submitQuiz lines 663-705: the payload written to the attempt store
Payload ==
  LET t == Tally(answers, N)
      attempted == Cardinality(DOMAIN answers)
  IN [userId |-> currentUser, score |-> t.totalMarks, maxMarks |-> t.maxMarks,
      correct |-> t.correct, wrong |-> t.wrong, unattempted |-> N - attempted,
      timeTaken |-> TOTAL_TIME_SECONDS - seconds, userAnswers |-> answers]

ToFixed1Truncates(num, den) == (10 * num) \div den
\* (x).toFixed(1) for x = num/den >= 0: the n for which n/10 is nearest to x,
\* the larger one of two; the string is kept as n, its number of tenths.
ToFixed1(num, den) == (20 * num + den) \div (2 * den)

\* submitQuiz lines 663-705 on any question list: the payload (681-705, its
\* `answers` as outcomes) and the accuracy of line 679, a const of submitQuiz
\* that is not part of the payload
SubmitQuiz(qs, ans, secs, user, now) ==
  LET t == SubmitQuizLoop(qs, ans, Len(qs))
      attempted == Cardinality(DOMAIN ans)
  IN [userId |-> user, score |-> t.totalMarks, maxMarks |-> t.maxMarks,
      correct |-> t.correct, wrong |-> t.wrong, unattempted |-> Len(qs) - attempted,
      timeTaken |-> TOTAL_TIME_SECONDS - secs, submittedAt |-> now,
      outcomes |-> [k \in 1..Len(qs) |->
                      [correctAnswer |-> qs[k].answer,
                       userAnswer |-> IF qs[k].id \in DOMAIN ans THEN ans[qs[k].id]
                                                                  ELSE "null"]],
      accuracy |-> IF attempted # 0 THEN ToFixed1(100 * t.correct, attempted) ELSE 0]

\* no submitQuiz run yet
NoScore ==
  [userId |-> NoUser, score |-> 0, maxMarks |-> 0, correct |-> 0, wrong |-> 0,
   unattempted |-> 0, timeTaken |-> 0, submittedAt |-> 0, outcomes |-> << >>,
   accuracy |-> 0]

\* -------------------------------------------------------- the leaderboard
\* showLeaderboard (630-658).  data maps each user that has attempts to the
\* attempts stored under it; an attempt is kept with its user, score and time.
BoardUsers == << "u1", "u2" >>

\* snapshot.val() is null (633)
NoData == [u \in {} |-> << >>]

NoBody == [none |-> FALSE, entries |-> << >>]

\* lines 638-641: the attempts of all users in one array
RECURSIVE AllAttempts(_, _)
AllAttempts(d, k) ==
  IF k > Len(BoardUsers) THEN << >>
  ELSE (IF BoardUsers[k] \in DOMAIN d THEN d[BoardUsers[k]] ELSE << >>)
         \o AllAttempts(d, k + 1)

CompareScoreOnly(a, b) == b.score - a.score
\* (a,b) => b.score - a.score || a.timeTaken - b.timeTaken (643)
Compare(a, b) ==
  IF b.score - a.score # 0 THEN b.score - a.score ELSE a.timeTaken - b.timeTaken

\* Array.prototype.sort with Compare: a stable sort; x goes in front of the
\* first element it compares below
RECURSIVE SortInsert(_, _)
SortInsert(x, s) ==
  IF s = << >> THEN << x >>
  ELSE IF Compare(x, Head(s)) < 0 THEN << x >> \o s
  ELSE << Head(s) >> \o SortInsert(x, Tail(s))

RECURSIVE Sort(_)
Sort(s) ==
  IF s = << >> THEN << >>
  ELSE SortInsert(s[Len(s)], Sort(SubSeq(s, 1, Len(s) - 1)))

SliceKeepsAll(s) == s
\* attempts.slice(0,10) (645)
Slice(s) == SubSeq(s, 1, IF Len(s) < 10 THEN Len(s) ELSE 10)

\* ------------------------------------------------------------ the parser
\* parse_txt_file (112-230).  A text is the sequence of its lines, stripped; a
\* line is kept with what the parser's regular expressions make of it:
\*   start     ^(?:\d+\.\s*|Q\.\d+\s+) matches it (139)
\*   rest      the line without that match (141)
\*   boundary  the lookahead (?=Q\.\d+|\d+\.\s*[A-Z]) of the split (117)
\*             matches at its first character
\*   inside    the lookahead matches inside a line of the text, and this is
\*             the piece of that line from the match on (the piece before it
\*             is the line record before this one)
\*   marker    the option pattern matches it (147, 154, 165, 168, 175)
\*   stop      ^Correct|^Answer:|^ex: matches it (166, 175)
\*   answer    what the branches of lines 189-202 assign to question["answer"]
\*             for it, "" when they assign nothing: the letter their searches
\*             capture (190, 196-198), lowered (192, 200) and mapped (193-194,
\*             201-202)
\*   ex        ^ex: matches it (208); exText is the line without ^ex:\s* (209)
TextLine(text) ==
  [text |-> text, start |-> FALSE, rest |-> text, boundary |-> FALSE, inside |-> FALSE,
   marker |-> FALSE, stop |-> FALSE, answer |-> "", ex |-> FALSE, exText |-> ""]

StartLine(text, rest) ==
  [TextLine(text) EXCEPT !.start = TRUE, !.rest = rest, !.boundary = TRUE]

\* a question line the lookahead does not match: \d+\.\s* and then no capital
QuietStartLine(text, rest) == [StartLine(text, rest) EXCEPT !.boundary = FALSE]

\* the piece of a line from a match of the lookahead inside it
InsidePiece(text, rest) == [StartLine(text, rest) EXCEPT !.inside = TRUE]

MarkerLine(text) == [TextLine(text) EXCEPT !.marker = TRUE]

Letters == << "a", "b", "c", "d", "e" >>
Capitals == << "A", "B", "C", "D", "E" >>

\* match.group(1).lower() (192, 200), of one letter
Lower(x) == IF \E k \in 1..5 : Capitals[k] = x
              THEN Letters[CHOOSE k \in 1..5 : Capitals[k] = x]
              ELSE x

AnswerMapAlwaysFirst(ans) == "1"
\* answer_map.get(ans, '1') (193-194, 201-202)
AnswerMap(ans) ==
  CASE ans = "a" -> "1" [] ans = "b" -> "2" [] ans = "c" -> "3"
    [] ans = "d" -> "4" [] ans = "e" -> "5" [] OTHER -> "1"

\* a line the answer loop reads an answer from, x being the letter captured
AnswerLine(text, x) ==
  [TextLine(text) EXCEPT !.stop = TRUE, !.answer = AnswerMap(Lower(x))]

ExLine(text, exText) == [TextLine(text) EXCEPT !.stop = TRUE, !.ex = TRUE, !.exText = exText]

\* the lines the texts are made of; "" is a blank line
Alphabet ==
  { TextLine(""),
    StartLine("1. Capital of India?", "Capital of India?"),
    StartLine("Q.2 Largest planet?", "Largest planet?"),
    TextLine("Bharat ki rajdhani?"),
    MarkerLine("a) Delhi"),
    MarkerLine("(b) Mumbai"),
    MarkerLine("C. Pune"),
    AnswerLine("Answer: (b)", "b"),
    AnswerLine("Correct option:-a", "a"),
    ExLine("ex: Seat of government", "Seat of government"),
    QuietStartLine("2. capital city?", "capital city?") }

\* the lines of a text the split cuts in two: "1. Is Q.5 easy?"
CutLines == { << StartLine("1. Is", "Is"), InsidePiece("Q.5 easy?", "easy?") >> }

\* the lines of a text, each as the pieces the split makes of it
TextLines == { << l >> : l \in Alphabet } \cup CutLines

RECURSIVE Flatten(_)
Flatten(seqs) == IF seqs = << >> THEN << >> ELSE Head(seqs) \o Flatten(Tail(seqs))

\* re.split (117) and the head of the loop (119-123): the blocks of c[i..], cur being
\* the lines of the block under way.  A blank line ends a block, a boundary
\* line ends it and begins the next.
RECURSIVE SplitBlocks(_, _, _)
SplitBlocks(c, i, cur) ==
  IF i > Len(c) THEN << cur >>
  ELSE IF c[i].text = "" THEN << cur >> \o SplitBlocks(c, i + 1, << >>)
  ELSE IF c[i].boundary THEN << cur >> \o SplitBlocks(c, i + 1, << c[i] >>)
  ELSE SplitBlocks(c, i + 1, Append(cur, c[i]))

\* '<br>'.join(texts)
RECURSIVE Join(_)
Join(texts) ==
  IF texts = << >> THEN ""
  ELSE IF Len(texts) = 1 THEN texts[1]
  ELSE texts[1] \o "<br>" \o Join(Tail(texts))

\* the while loops of lines 146-149 and 153-156: the first marker line at or
\* after i, Len(ls) + 1 when there is none
RECURSIVE SkipToMarker(_, _)
SkipToMarker(ls, i) ==
  IF i <= Len(ls) /\ ~ls[i].marker THEN SkipToMarker(ls, i + 1) ELSE i

Texts(ls, from, to) == [j \in 1..(to - from + 1) |-> ls[from + j - 1].text]

\* lines 139-158: the question text and the line the options start at
QuestionPart(ls) ==
  IF ls[1].start
    THEN LET i == SkipToMarker(ls, 2)
         IN [next |-> i, question |-> Join(<< ls[1].rest >> \o Texts(ls, 2, i - 1))]
    ELSE LET i == SkipToMarker(ls, 1)
         IN [next |-> i, question |-> Join(Texts(ls, 1, i - 1))]

RECURSIVE CollectOptionsMarkerOnly(_, _, _)
CollectOptionsMarkerOnly(ls, i, opts) ==
  IF i <= Len(ls) /\ Len(opts) < 5 /\ (ls[i].marker \/ ~ls[i].stop)
    THEN IF ls[i].marker
           THEN CollectOptionsMarkerOnly(ls, i + 1, Append(opts, ls[i].text))
           ELSE CollectOptionsMarkerOnly(ls, i + 1, opts)
    ELSE [next |-> i, options |-> opts]

\* the option loop (164-183) from line i on, opts being the options so far
RECURSIVE CollectOptions(_, _, _)
CollectOptions(ls, i, opts) ==
  IF i <= Len(ls) /\ Len(opts) < 5 /\ (ls[i].marker \/ ~ls[i].stop)
    THEN IF ls[i].marker
           THEN IF i + 1 <= Len(ls) /\ ~ls[i + 1].marker /\ ~ls[i + 1].stop
                  THEN CollectOptions(ls, i + 2,
                                      Append(opts, ls[i].text \o "<br>" \o ls[i + 1].text))
                  ELSE CollectOptions(ls, i + 1, Append(opts, ls[i].text))
           ELSE CollectOptions(ls, i + 1, opts)
    ELSE [next |-> i, options |-> opts]

\* the answer loop (186-203) from line i on: every line that gives an answer
\* overwrites the one before
RECURSIVE ExtractAnswer(_, _, _)
ExtractAnswer(ls, i, answer) ==
  IF i > Len(ls) THEN answer
  ELSE ExtractAnswer(ls, i + 1, IF ls[i].answer # "" THEN ls[i].answer ELSE answer)

\* lines 206-211
SolutionText(ls) ==
  LET exs == SelectSeq(ls, LAMBDA l : l.ex)
  IN Join([j \in 1..Len(exs) |-> exs[j].exText])

SlotFromLast(opts, k) == IF k <= Len(opts) THEN opts[Len(opts) + 1 - k] ELSE ""
\* question[f"option_{k}"]: the k-th option collected (169, 180), "" when
\* there are fewer (130)
Slot(opts, k) == IF k <= Len(opts) THEN opts[k] ELSE ""

\* lines 128-224: the dict built for a block of at least 3 lines (of the
\* metadata of 213-224 the two scores are kept)
ParseBlock(ls) ==
  LET q == QuestionPart(ls)
      o == CollectOptions(ls, q.next, << >>)
  IN [question |-> q.question,
      option_1 |-> Slot(o.options, 1), option_2 |-> Slot(o.options, 2),
      option_3 |-> Slot(o.options, 3), option_4 |-> Slot(o.options, 4),
      option_5 |-> Slot(o.options, 5),
      answer |-> ExtractAnswer(ls, o.next, ""),
      solution_text |-> SolutionText(ls),
      correct_score |-> "3", negative_score |-> "1"]

\* if question["question"] and (question["option_1"] or question["option_2"]) (227)
Emits(q) == q.question # "" /\ (q.option_1 # "" \/ q.option_2 # "")

\* the for loop of lines 119-228 over the blocks
RECURSIVE ParseBlocks(_)
ParseBlocks(blocks) ==
  IF blocks = << >> THEN << >>
  ELSE LET ls == Head(blocks)
       IN IF Len(ls) < 3 THEN ParseBlocks(Tail(blocks))
          ELSE IF Emits(ParseBlock(ls))
            THEN << ParseBlock(ls) >> \o ParseBlocks(Tail(blocks))
          ELSE ParseBlocks(Tail(blocks))

ParseTxtFile(c) == ParseBlocks(SplitBlocks(c, 1, << >>))

\* the blocks of the text that have lines (117-123)
Blocks(c) == SelectSeq(SplitBlocks(c, 1, << >>), LAMBDA b : b # << >>)

\* parse_txt_file not called yet; blocks is history, the local of line 117
NotParsed == [done |-> FALSE, questions |-> << >>, blocks |-> << >>]

\* ------------------------------------------------------------ page load
\* The globals (lines 414-421) and the markup's display state as a load of
\* the page leaves them; localStorage and the attempt store are kept.
PageLoaded ==
  /\ currentUser' = NoUser
  /\ current' = 0
  /\ answers' = EmptyAnswers
  /\ markedForReview' = << >>
  /\ seconds' = TOTAL_TIME_SECONDS
  /\ timerInterval' = FALSE
  /\ quizInitialized' = FALSE
  /\ shown' = {"loadingMessage", "quizCard"}
  /\ listeners' = FALSE
  /\ results' = << >>
  /\ submitCalls' = 0
  /\ loadKind' = "none"

Init ==
  /\ page = "script"
  /\ currentUser = NoUser
  /\ current = 0
  /\ answers = EmptyAnswers
  /\ markedForReview = << >>
  /\ seconds = TOTAL_TIME_SECONDS
  /\ timerInterval = FALSE
  /\ quizInitialized = FALSE
  /\ shown = {"loadingMessage", "quizCard"}
  /\ listeners = FALSE
  /\ results = << >>
  /\ submitCalls = 0
  /\ loadKind = "none"
  /\ abandonedAt = TOTAL_TIME_SECONDS
  /\ lsState \in {NoState, CorruptState, PartialState}
  /\ lsResult \in {NoResult, CorruptResult, StoredResult}
  /\ lsUid \in Users \cup {NoUser}
  /\ attempts = [count |-> 0, last |-> NoPayload]
  /\ questions = QUESTIONS
  /\ scored = NoScore
  /\ content = << >>
  /\ parsed = NotParsed
  /\ data = NoData
  /\ leaderboardBody = NoBody
  /\ isQuiz = FALSE
  /\ optionClasses = NoClasses
  /\ conversation = NoConversation
  /\ user_data = NoUserData
  /\ quizzes = << >>

\* location.reload(), or the page opened again later
Reload ==
  /\ page # "script"
  /\ attempts.count < MaxAttempts
  /\ PageLoaded
  /\ page' = "script"
  /\ abandonedAt' = IF Phase = "Active" THEN seconds ELSE abandonedAt
  /\ UNCHANGED << lsState, lsResult, lsUid, attempts, scoringVars, parserVars, boardVars, feedbackVars, botVars >>

TerminalResultNever(r) == FALSE
\* data.submitted && data.resultHTML (line 501)
TerminalResult(r) == r.kind = "json" /\ r.submitted /\ r.resultHTML # << >>

\* initQuiz throws: JSON.parse on a corrupt item (lines 500, 509), or
\* renderQuestion reading QUESTIONS[i].question for an index that is no question
InitQuizThrows ==
  \/ lsResult.kind = "corrupt"
  \/ /\ ~TerminalResult(lsResult)
     /\ \/ lsState.kind = "corrupt"
        \/ lsState.kind = "json" /\ RestoreCurrent(lsState) \notin 0..(N - 1)

\* showQuizImmediately (427-436) with initQuiz (495-521), showSavedResult
\* (523-533), renderQuestion's saveQuizState (559) and startTimer (587-589)
ShowQuizImmediately ==
  LET shown1 == (shown \ {"loadingMessage"}) \cup {"quizHeader", "quizContainer", "floatBar"}
  IN IF InitQuizThrows
     THEN /\ shown' = shown1
          /\ loadKind' = "threw"
          /\ abandonedAt' = TOTAL_TIME_SECONDS
          /\ UNCHANGED << current, answers, markedForReview, seconds, timerInterval,
                          quizInitialized, listeners, results, lsState >>
     ELSE IF TerminalResult(lsResult)
     THEN /\ shown' = (shown1 \ {"quizCard", "floatBar"}) \cup {"results"}
          /\ results' = lsResult.resultHTML
          /\ quizInitialized' = TRUE
          /\ loadKind' = "saved"
          /\ abandonedAt' = TOTAL_TIME_SECONDS
          /\ UNCHANGED << current, answers, markedForReview, seconds, timerInterval,
                          listeners, lsState >>
     ELSE /\ IF lsState.kind = "json"
               THEN /\ current' = RestoreCurrent(lsState)
                    /\ answers' = RestoreAnswers(lsState)
                    /\ seconds' = RestoreSeconds(lsState)
                    /\ markedForReview' = RestoreMarked(lsState)
                    /\ loadKind' = "resumed"
               ELSE /\ UNCHANGED << current, answers, seconds, markedForReview >>
                    /\ loadKind' = "fresh"
          /\ lsState' = SaveQuizState'
          /\ timerInterval' = TRUE
          /\ listeners' = TRUE
          /\ quizInitialized' = TRUE
          /\ shown' = shown1
          /\ abandonedAt' = TOTAL_TIME_SECONDS
          /\ UNCHANGED results

\* The top-level script, lines 438-491.  It runs in <head> (the script element
\* spans lines 389-901, <body> starts at 903), so the showQuizImmediately()
\* calls of lines 448 and 464 find no element: getElementById returns null and
\* the script ends in a TypeError before the observer of line 468 is set.
RunScript ==
  /\ page = "script"
  /\ \E syncUser \in Users \cup {NoUser}, cacheValid \in BOOLEAN :
       IF syncUser # NoUser
       THEN /\ currentUser' = syncUser
            /\ lsUid' = syncUser
            /\ page' = "dead"
       ELSE IF lsUid # NoUser /\ cacheValid
       THEN /\ currentUser' = lsUid
            /\ page' = "dead"
            /\ UNCHANGED lsUid
       ELSE /\ page' = "running"
            /\ UNCHANGED << currentUser, lsUid >>
  /\ UNCHANGED << current, answers, markedForReview, seconds, timerInterval,
                  quizInitialized, shown, listeners, results, lsState, lsResult,
                  attempts, submitCalls, loadKind, abandonedAt, scoringVars, parserVars, boardVars, feedbackVars, botVars >>

AuthSignedInUserNotKept(user) ==
  /\ page = "running"
  /\ UNCHANGED currentUser
  /\ lsUid' = user
  /\ IF ~quizInitialized
       THEN ShowQuizImmediately
       ELSE UNCHANGED << current, answers, markedForReview, seconds, timerInterval,
                         quizInitialized, shown, listeners, results, lsState, loadKind,
                         abandonedAt >>
  /\ UNCHANGED << page, lsResult, attempts, submitCalls, scoringVars, parserVars, boardVars, feedbackVars, botVars >>

\* auth.onAuthStateChanged callback with a user (lines 469-480)
AuthSignedIn(user) ==
  /\ page = "running"
  /\ currentUser' = user
  /\ lsUid' = user
  /\ IF ~quizInitialized
       THEN ShowQuizImmediately
       ELSE UNCHANGED << current, answers, markedForReview, seconds, timerInterval,
                         quizInitialized, shown, listeners, results, lsState, loadKind,
                         abandonedAt >>
  /\ UNCHANGED << page, lsResult, attempts, submitCalls, scoringVars, parserVars, boardVars, feedbackVars, botVars >>

\* auth.onAuthStateChanged callback with null (lines 481-489): the cache is
\* cleared and window.location.href takes the browser to the login page, which
\* discards this document.
AuthSignedOut ==
  /\ page = "running"
  /\ lsUid' = NoUser
  /\ PageLoaded
  /\ page' = "redirected"
  /\ abandonedAt' = IF Phase = "Active" THEN seconds ELSE abandonedAt
  /\ UNCHANGED << lsState, lsResult, attempts, scoringVars, parserVars, boardVars, feedbackVars, botVars >>

\* ------------------------------------------------------ session handlers
\* A handler runs when attachListeners has bound it and its element is rendered.
\* The submit modal is an overlay, it disables nothing: the controls under it
\* still answer keyboard activation.
Bound(e) == page = "running" /\ listeners /\ Visible(e)

\* the document click listener (832-837): a click outside the palette closes it
ClosePalette == shown' = shown \ {"palette"}

\* renderQuestion(i) (535-560): sets current and ends in saveQuizState()
RenderQuestion(i) ==
  /\ current' = i
  /\ lsState' = SaveQuizState'

Frame == UNCHANGED << page, currentUser, quizInitialized, listeners, results, lsResult,
                      lsUid, loadKind, abandonedAt, scoringVars, parserVars, boardVars, feedbackVars, botVars >>

NextBtnPastEnd ==
  /\ Bound("floatBar")
  /\ Frame
  /\ UNCHANGED << answers, markedForReview, seconds, timerInterval, attempts, submitCalls >>
  /\ RenderQuestion(current + 1)
  /\ ClosePalette

\* nextBtn (793)
NextBtn ==
  /\ Bound("floatBar")
  /\ Frame
  /\ UNCHANGED << answers, markedForReview, seconds, timerInterval, attempts, submitCalls >>
  /\ IF current < N - 1 THEN RenderQuestion(current + 1) ELSE UNCHANGED << current, lsState >>
  /\ ClosePalette

\* prevBtn (794)
PrevBtn ==
  /\ Bound("floatBar")
  /\ Frame
  /\ UNCHANGED << answers, markedForReview, seconds, timerInterval, attempts, submitCalls >>
  /\ IF current > 0 THEN RenderQuestion(current - 1) ELSE UNCHANGED << current, lsState >>
  /\ ClosePalette

ClearBtnClearsAll ==
  /\ Bound("floatBar")
  /\ Frame
  /\ answers' = EmptyAnswers
  /\ UNCHANGED << markedForReview, seconds, timerInterval, attempts, submitCalls >>
  /\ RenderQuestion(current)
  /\ ClosePalette

\* clearBtn (795-799)
ClearBtn ==
  /\ Bound("floatBar")
  /\ Frame
  /\ answers' = Delete(answers, Qid(current))
  /\ UNCHANGED << markedForReview, seconds, timerInterval, attempts, submitCalls >>
  /\ RenderQuestion(current)
  /\ ClosePalette

ToggleMarkOnly(set, x) == IF Has(set, x) THEN set ELSE Append(set, x)
\* markedForReview.has(current) ? markedForReview.delete(current)
\*                               : markedForReview.add(current) (801)
ToggleMark(set, x) == IF Has(set, x) THEN SetDelete(set, x) ELSE Append(set, x)

\* markReviewBtn (800-804)
MarkReviewBtn ==
  /\ Bound("floatBar")
  /\ Frame
  /\ markedForReview' = ToggleMark(markedForReview, current)
  /\ UNCHANGED << current, answers, seconds, timerInterval, attempts, submitCalls >>
  /\ lsState' = SaveQuizState'
  /\ ClosePalette

\* saveNextBtn (805-808)
SaveNextBtn ==
  /\ Bound("floatBar")
  /\ Frame
  /\ UNCHANGED << answers, markedForReview, seconds, timerInterval, attempts, submitCalls >>
  /\ IF current < N - 1 THEN RenderQuestion(current + 1)
                         ELSE current' = current /\ lsState' = SaveQuizState'
  /\ ClosePalette

SelectOptionAnySlot(val) ==
  /\ Bound("quizCard")
  /\ Frame
  /\ answers' = Put(answers, Qid(current), Str(val))
  /\ UNCHANGED << current, markedForReview, seconds, timerInterval, attempts, submitCalls >>
  /\ lsState' = SaveQuizState'
  /\ ClosePalette

\* the click listener renderQuestion puts on option idx+1 (552), selectOption (562-570)
SelectOption(val) ==
  /\ Bound("quizCard")
  /\ Frame
  /\ val \in QUESTIONS[current + 1].opts
  /\ answers' = Put(answers, Qid(current), Str(val))
  /\ UNCHANGED << current, markedForReview, seconds, timerInterval, attempts, submitCalls >>
  /\ lsState' = SaveQuizState'
  /\ ClosePalette

\* paletteBtn (809-812), togglePalette (882-886); stopPropagation keeps the
\* document listener out
PaletteBtn ==
  /\ Bound("quizHeader")
  /\ shown' = IF "palette" \in shown THEN shown \ {"palette"} ELSE shown \cup {"palette"}
  /\ UNCHANGED << current, answers, markedForReview, seconds, timerInterval, lsState,
                  attempts, submitCalls >>
  /\ Frame

\* a palette button (847-851)
PaletteQbtn(i) ==
  /\ Bound("palette")
  /\ Frame
  /\ UNCHANGED << answers, markedForReview, seconds, timerInterval, attempts, submitCalls >>
  /\ RenderQuestion(i)
  /\ shown' = shown \ {"palette"}

\* submitBtn (813-817): opens the confirmation modal
SubmitBtnClicked == (shown \cup {"submitModal"}) \ {"palette"}

SubmitBtn ==
  /\ Bound("quizHeader")
  /\ shown' = SubmitBtnClicked
  /\ UNCHANGED << current, answers, markedForReview, seconds, timerInterval, lsState,
                  attempts, submitCalls >>
  /\ Frame

\* cancelSubmit (818)
CancelSubmit ==
  /\ Bound("submitModal")
  /\ shown' = shown \ {"submitModal", "palette"}
  /\ UNCHANGED << current, answers, markedForReview, seconds, timerInterval, lsState,
                  attempts, submitCalls >>
  /\ Frame

\* The interval callback of startTimer (589-596).  It does not call
\* saveQuizState.  At seconds <= 0 it clears the interval and clicks submitBtn,
\* whose listener (813-817) opens the confirmation modal.
TimerTick ==
  /\ page = "running"
  /\ timerInterval
  /\ seconds > -MaxOverrun
  /\ seconds' = seconds - 1
  /\ IF seconds' <= 0
       THEN /\ timerInterval' = FALSE
            /\ shown' = IF listeners THEN SubmitBtnClicked ELSE shown
       ELSE UNCHANGED << timerInterval, shown >>
  /\ UNCHANGED << current, answers, markedForReview, lsState, attempts, submitCalls >>
  /\ Frame

DisplayResultsHidesCardOnly == {"quizCard"}
\* displayResults (714-784) hides the card, the bar and the header (715-717)
\* and then evaluates the template literal of lines 719-734, whose ${accuracy}
\* names a const of submitQuiz (679) that is not in scope here: a ReferenceError
\* ends it before el("results") is filled and before QUIZ_RESULT_KEY is set.
DisplayResultsHides == {"quizCard", "floatBar", "quizHeader"}

SubmitQuizTimerKept == timerInterval
\* clearInterval(timerInterval) (662): the interval after submitQuiz
SubmitQuizTimer == FALSE

ConfirmSubmitHidesNothing == {}
\* el("submitModal").style.display = "none" (820)
ConfirmSubmitHides == {"submitModal"}

\* confirmSubmit (819-822) and submitQuiz (661-712).  With currentUser null
\* line 682 throws before the write of line 708.
ConfirmSubmit ==
  /\ Bound("submitModal")
  /\ attempts.count <= MaxAttempts
  /\ timerInterval' = SubmitQuizTimer
  /\ submitCalls' = submitCalls + 1
  /\ IF currentUser = NoUser
       THEN /\ shown' = shown \ (ConfirmSubmitHides \cup {"palette"})
            /\ UNCHANGED attempts
       ELSE /\ attempts' = [count |-> attempts.count + 1, last |-> Payload]
            /\ shown' = shown \ (ConfirmSubmitHides \cup {"palette"} \cup DisplayResultsHides)
  /\ UNCHANGED << current, answers, markedForReview, seconds, lsState >>
  /\ Frame

Next ==
  \/ RunScript
  \/ \E user \in Users : AuthSignedIn(user)
  \/ AuthSignedOut
  \/ Reload
  \/ NextBtn
  \/ PrevBtn
  \/ ClearBtn
  \/ MarkReviewBtn
  \/ SaveNextBtn
  \/ \E val \in 1..5 : SelectOption(val)
  \/ PaletteBtn
  \/ \E i \in 0..(N - 1) : PaletteQbtn(i)
  \/ SubmitBtn
  \/ CancelSubmit
  \/ TimerTick
  \/ ConfirmSubmit

Spec == Init /\ [][Next]_vars

\* ------------------------------------------- snapshot writes that fail
\* localStorage.setItem throws when the origin's quota is used up (every page
\* of the origin shares it).  saveQuizState (605-613) has no try, no caller has
\* one: the exception ends the running handler at the saveQuizState() call.

\* renderQuestion(i) (535-560) when its last statement throws
RenderQuestionSaveThrows(i) ==
  /\ current' = i
  /\ UNCHANGED lsState

\* nextBtn (793), the save failing
NextBtnSaveThrows ==
  /\ Bound("floatBar")
  /\ current < N - 1
  /\ RenderQuestionSaveThrows(current + 1)
  /\ UNCHANGED << answers, markedForReview, seconds, timerInterval, attempts, submitCalls >>
  /\ ClosePalette
  /\ Frame

\* prevBtn (794), the save failing
PrevBtnSaveThrows ==
  /\ Bound("floatBar")
  /\ current > 0
  /\ RenderQuestionSaveThrows(current - 1)
  /\ UNCHANGED << answers, markedForReview, seconds, timerInterval, attempts, submitCalls >>
  /\ ClosePalette
  /\ Frame

\* clearBtn (795-799), the save failing: highlightPalette (798) is not reached
ClearBtnSaveThrows ==
  /\ Bound("floatBar")
  /\ answers' = Delete(answers, Qid(current))
  /\ RenderQuestionSaveThrows(current)
  /\ UNCHANGED << markedForReview, seconds, timerInterval, attempts, submitCalls >>
  /\ ClosePalette
  /\ Frame

\* markReviewBtn (800-804), the save failing
MarkReviewBtnSaveThrows ==
  /\ Bound("floatBar")
  /\ markedForReview' = IF Has(markedForReview, current)
                           THEN SetDelete(markedForReview, current)
                           ELSE Append(markedForReview, current)
  /\ UNCHANGED << current, answers, seconds, timerInterval, lsState, attempts, submitCalls >>
  /\ ClosePalette
  /\ Frame

\* saveNextBtn (805-808), the save failing: saveQuizState() is its first
\* statement (806), the renderQuestion(current+1) of line 807 is not reached
SaveNextBtnSaveThrows ==
  /\ Bound("floatBar")
  /\ UNCHANGED << current, answers, markedForReview, seconds, timerInterval, lsState,
                  attempts, submitCalls >>
  /\ ClosePalette
  /\ Frame

\* selectOption (562-570), the save failing
SelectOptionSaveThrows(val) ==
  /\ Bound("quizCard")
  /\ val \in QUESTIONS[current + 1].opts
  /\ answers' = Put(answers, Qid(current), Str(val))
  /\ UNCHANGED << current, markedForReview, seconds, timerInterval, lsState, attempts,
                  submitCalls >>
  /\ ClosePalette
  /\ Frame

\* a palette button (847-851), the save failing: line 850 is not reached and
\* the palette stays open
PaletteQbtnSaveThrows(i) ==
  /\ Bound("palette")
  /\ RenderQuestionSaveThrows(i)
  /\ UNCHANGED << answers, markedForReview, seconds, timerInterval, shown, attempts,
                  submitCalls >>
  /\ Frame

\* onAuthStateChanged (469-480) when the saveQuizState of initQuiz's
\* renderQuestion (516) throws: the globals are restored, startTimer and
\* attachListeners (517-518) and window.quizInitialized (435) are not reached
AuthSignedInSaveThrows(user) ==
  /\ page = "running"
  /\ ~quizInitialized
  /\ ~InitQuizThrows
  /\ ~TerminalResult(lsResult)
  /\ currentUser' = user
  /\ lsUid' = user
  /\ IF lsState.kind = "json"
       THEN /\ current' = RestoreCurrent(lsState)
            /\ answers' = RestoreAnswers(lsState)
            /\ seconds' = RestoreSeconds(lsState)
            /\ markedForReview' = RestoreMarked(lsState)
       ELSE UNCHANGED << current, answers, seconds, markedForReview >>
  /\ shown' = (shown \ {"loadingMessage"}) \cup {"quizHeader", "quizContainer", "floatBar"}
  /\ loadKind' = "threw"
  /\ abandonedAt' = TOTAL_TIME_SECONDS
  /\ UNCHANGED << page, timerInterval, quizInitialized, listeners, results, lsState,
                  lsResult, attempts, submitCalls, scoringVars, parserVars, boardVars, feedbackVars, botVars >>

\* One visit of the page, from the script's start to the submission, with a
\* localStorage whose writes may fail.
NextQuota ==
  \/ RunScript
  \/ \E user \in Users : AuthSignedIn(user)
  \/ \E user \in Users : AuthSignedInSaveThrows(user)
  \/ NextBtn
  \/ NextBtnSaveThrows
  \/ PrevBtn
  \/ PrevBtnSaveThrows
  \/ ClearBtn
  \/ ClearBtnSaveThrows
  \/ MarkReviewBtn
  \/ MarkReviewBtnSaveThrows
  \/ SaveNextBtn
  \/ SaveNextBtnSaveThrows
  \/ \E val \in 1..5 : SelectOption(val)
  \/ \E val \in 1..5 : SelectOptionSaveThrows(val)
  \/ PaletteBtn
  \/ \E i \in 0..(N - 1) : PaletteQbtn(i)
  \/ \E i \in 0..(N - 1) : PaletteQbtnSaveThrows(i)
  \/ SubmitBtn
  \/ CancelSubmit
  \/ TimerTick
  \/ ConfirmSubmit

SpecQuota == Init /\ [][NextQuota]_vars

\* ------------------------------------------------- a shared browser
\* Two accounts use the quiz in one browser profile: the observer of line 468
\* reports whoever is signed in when the page loads.
OtherUsers == {"u2"}

NextShared ==
  \/ Next
  \/ \E user \in OtherUsers : AuthSignedIn(user)

SpecShared == Init /\ [][NextShared]_vars

\* ------------------------------------------------ scoring on its own
\* submitQuiz over any question list generate_html_quiz can inject and any
\* answers a session of it can hold, run more than once on the same input.

\* q["id"] = str(50000 + i + 1) (977)
QuestionIds == << "50001", "50002", "50003", "50004", "50005" >>

\* quiz_data["marks"] and quiz_data["negative"], the same for every question
\* (979-980): << correct_score, negative_score >>
Markings == { << 3, 1 >>, << 2, 0 >> }

\* question["answer"]: "" unless an answer line was recognised (131)
AnswerKeys == { "", "1", "2" }

QuestionList(n, mk, key) ==
  [k \in 1..n |-> [id |-> QuestionIds[k], answer |-> key[k], opts |-> {1, 2},
                   correct_score |-> mk[1], negative_score |-> mk[2]]]

\* answers (416): String(idx+1) (563) under the ids of some of the questions
AnswerMaps(qs) ==
  UNION { [ids -> {"1", "2"}] : ids \in SUBSET { qs[k].id : k \in 1..Len(qs) } }

InitScoring ==
  /\ page = "running"
  /\ currentUser \in Users
  /\ lsUid = currentUser
  /\ current = 0
  /\ markedForReview = << >>
  /\ timerInterval = TRUE
  /\ quizInitialized = TRUE
  /\ shown = {"quizCard", "quizContainer", "quizHeader", "floatBar", "submitModal"}
  /\ listeners = TRUE
  /\ results = << >>
  /\ submitCalls = 0
  /\ loadKind = "fresh"
  /\ abandonedAt = TOTAL_TIME_SECONDS
  /\ lsState = NoState
  /\ lsResult = NoResult
  /\ attempts = [count |-> 0, last |-> NoPayload]
  /\ \E n \in 1..MaxQuestions, mk \in Markings :
       \E key \in [1..n -> AnswerKeys] : questions = QuestionList(n, mk, key)
  /\ answers \in AnswerMaps(questions)
  /\ seconds \in 0..TOTAL_TIME_SECONDS
  /\ scored = NoScore
  /\ content = << >>
  /\ parsed = NotParsed
  /\ data = NoData
  /\ leaderboardBody = NoBody
  /\ isQuiz = FALSE
  /\ optionClasses = NoClasses
  /\ conversation = NoConversation
  /\ user_data = NoUserData
  /\ quizzes = << >>

\* one run of submitQuiz's scoring (661-705); Date.now() (692) does not go back
SubmitQuizRun ==
  /\ submitCalls < MaxRuns
  /\ \E now \in 1..MaxClock :
       /\ now >= scored.submittedAt
       /\ scored' = SubmitQuiz(questions, answers, seconds, currentUser, now)
  /\ submitCalls' = submitCalls + 1
  /\ UNCHANGED << page, currentUser, current, answers, markedForReview, seconds,
                  timerInterval, quizInitialized, shown, listeners, results, lsState,
                  lsResult, lsUid, attempts, loadKind, abandonedAt, questions, parserVars, boardVars, feedbackVars, botVars >>

NextScoring == SubmitQuizRun

SpecScoring == InitScoring /\ [][NextScoring]_vars

\* ------------------------------------------------ the parser on its own
\* parse_txt_file on every text of up to MaxLines lines of the Alphabet; no
\* page is open.
InitParser ==
  /\ page = "script"
  /\ currentUser = NoUser
  /\ current = 0
  /\ answers = EmptyAnswers
  /\ markedForReview = << >>
  /\ seconds = TOTAL_TIME_SECONDS
  /\ timerInterval = FALSE
  /\ quizInitialized = FALSE
  /\ shown = {"loadingMessage", "quizCard"}
  /\ listeners = FALSE
  /\ results = << >>
  /\ submitCalls = 0
  /\ loadKind = "none"
  /\ abandonedAt = TOTAL_TIME_SECONDS
  /\ lsState = NoState
  /\ lsResult = NoResult
  /\ lsUid = NoUser
  /\ attempts = [count |-> 0, last |-> NoPayload]
  /\ questions = QUESTIONS
  /\ scored = NoScore
  /\ \E n \in 1..MaxLines : \E text \in [1..n -> TextLines] : content = Flatten(text)
  /\ parsed = NotParsed
  /\ data = NoData
  /\ leaderboardBody = NoBody
  /\ isQuiz = FALSE
  /\ optionClasses = NoClasses
  /\ conversation = NoConversation
  /\ user_data = NoUserData
  /\ quizzes = << >>

\* questions = parse_txt_file(content)
ParseTxtFileCall ==
  /\ ~parsed.done
  /\ parsed' = [done |-> TRUE, questions |-> ParseTxtFile(content),
                 blocks |-> Blocks(content)]
  /\ UNCHANGED << page, currentUser, current, answers, markedForReview, seconds,
                  timerInterval, quizInitialized, shown, listeners, results, lsState,
                  lsResult, lsUid, attempts, submitCalls, loadKind, abandonedAt,
                  scoringVars, content, boardVars, feedbackVars, botVars >>

NextParser == ParseTxtFileCall

SpecParser == InitParser /\ [][NextParser]_vars

\* ================================================================ claims

\* The snapshot the first renderQuestion of a fresh session writes.
FreshState ==
  [kind |-> "json", has |-> StateFields, current |-> 0, answers |-> EmptyAnswers,
   seconds |-> TOTAL_TIME_SECONDS, markedForReview |-> << >>, by |-> currentUser]

\* C1: a session opened fresh whose TOTAL_TIME_SECONDS ticks have been delivered,
\* with no user action, is Submitted, has written exactly one Result, and that
\* Result has timeTaken = TOTAL_TIME_SECONDS.
C1_AutoSubmitOnTimeout ==
  (/\ loadKind = "fresh"
   /\ seconds = 0
   /\ lsState = FreshState
   /\ current = 0 /\ answers = EmptyAnswers /\ markedForReview = << >>)
  => (/\ Phase = "Submitted"
      /\ submitCalls = 1
      /\ attempts.count = 1
      /\ attempts.last.timeTaken = TOTAL_TIME_SECONDS)

\* C2: however the timer reaching 0 and the manual submission interleave on a
\* page, scoring runs at most once there, it has run exactly once when the
\* session has left Active, and every scoring run is one attempt-store write.
C2_OneShotSubmission ==
  /\ [](/\ submitCalls <= 1
        /\ (Phase = "Active" => submitCalls = 0)
        /\ (Phase = "Submitted" /\ loadKind \in {"fresh", "resumed"} => submitCalls = 1))
  /\ [][attempts'.count =
          attempts.count + (IF submitCalls' > submitCalls THEN submitCalls' - submitCalls ELSE 0)]_vars

\* C2 witness: the timer ran out (it opened the modal at 0) and the session was
\* submitted, with one record written.
C2_Witness ==
  /\ seconds = 0 /\ submitCalls = 1 /\ Phase = "Submitted"
  /\ attempts.count = 1 /\ attempts.last.timeTaken = TOTAL_TIME_SECONDS

\* C3: once the session is Submitted no step of the page runs scoring again,
\* writes to the attempt store or changes the stored Result.
C3_SubmitIdempotent ==
  [][Phase = "Submitted" =>
       /\ attempts' = attempts
       /\ lsResult' = lsResult
       /\ submitCalls' <= submitCalls
       /\ (Phase' = "Submitted" => results' = results)]_vars

\* C3 witness: a session submitted on this page, with handlers attached and
\* time left, so that further events could arrive.
C3_Witness ==
  Phase = "Submitted" /\ submitCalls = 1 /\ listeners /\ seconds > 0 /\ attempts.count = 1

\* C4: once a submission has been performed, every later initialised load of
\* the quiz is Submitted and shows the persisted Result; it never resumes Active.
C4_SubmissionIsTerminal ==
  (attempts.count > 0 /\ quizInitialized)
  => (/\ Phase = "Submitted"
      /\ (submitCalls = 0 => TerminalResult(lsResult) /\ results = << attempts.last >>))

\* C5: a page initialised while a terminal Result is persisted goes from
\* Loading to Submitted only, renders the stored Result, runs no scoring,
\* writes nothing to the attempt store and starts no timer.
C5_IdempotentReplay ==
  /\ [](lsResult = StoredResult /\ quizInitialized =>
          /\ Phase = "Submitted"
          /\ results = StoredResult.resultHTML
          /\ Visible("results")
          /\ submitCalls = 0
          /\ attempts.count = 0
          /\ ~timerInterval)
  /\ [][lsResult = StoredResult /\ Phase = "Loading" => Phase' \in {"Loading", "Submitted"}]_vars

\* C5 witness: initQuiz took the stored Result.
C5_Witness == loadKind = "saved" /\ lsResult = StoredResult /\ results = << StoredPayload >>

\* C6: each tick lowers the remaining time by exactly 1, and the remaining
\* time is never below 0 in any reachable state, resumed sessions included.
C6_TimerInvariant ==
  /\ [][TimerTick => seconds' = seconds - 1]_vars
  /\ [](seconds >= 0)

\* C7: the remaining time never goes up: not between two states of an Active
\* page, and not from the moment an Active page is left to the session resumed
\* from its snapshot.
C7_RemainingTimeMonotonic ==
  /\ [][Phase = "Active" /\ Phase' = "Active" => seconds' <= seconds]_vars
  /\ [][loadKind = "none" /\ loadKind' = "resumed" => seconds' <= abandonedAt]_vars

\* C8: after every operation that changes the SessionState of an Active page
\* (index, answers, marked set or remaining time) the persisted snapshot
\* equals the in-memory SessionState.
C8_EveryMutationSnapshots ==
  [][(/\ Phase = "Active" /\ Phase' = "Active"
      /\ << current, answers, markedForReview, seconds >>' #
           << current, answers, markedForReview, seconds >>)
     => lsState' = SaveQuizState']_vars

\* A snapshot as saveQuizState writes it, for this quiz.
WellFormedState(s) ==
  /\ s.kind = "json"
  /\ s.has = StateFields
  /\ s.current \in 0..(N - 1)

ToSet(seq) == {seq[j] : j \in 1..Len(seq)}

\* C9: when initQuiz runs with no terminal Result, a well-formed snapshot
\* brings the session to Active with index, answers, marked set and remaining
\* time equal to the snapshot's, and no snapshot brings it to Active with
\* index 0, no answers, no marks and the full time budget.
C9_SnapshotRoundTrip ==
  [][(loadKind = "none" /\ loadKind' # "none" /\ lsResult.kind = "none") =>
       /\ WellFormedState(lsState) =>
            /\ Phase' = "Active"
            /\ current' = lsState.current
            /\ answers' = lsState.answers
            /\ ToSet(markedForReview') = ToSet(lsState.markedForReview)
            /\ seconds' = lsState.seconds
       /\ lsState.kind = "none" =>
            /\ Phase' = "Active"
            /\ current' = 0
            /\ answers' = EmptyAnswers
            /\ markedForReview' = << >>
            /\ seconds' = TOTAL_TIME_SECONDS]_vars

\* C9 witness: a session resumed from a snapshot an earlier page wrote (that
\* page also submitted), carrying an index, an answer, a mark and a remaining
\* time below the budget.
C9_Witness ==
  /\ loadKind = "resumed" /\ Phase = "Active" /\ attempts.count = 1 /\ submitCalls = 0
  /\ current = 1 /\ answers # EmptyAnswers /\ markedForReview # << >>
  /\ seconds < TOTAL_TIME_SECONDS /\ seconds > 0
  /\ lsState = SaveQuizState

\* C10: when initQuiz runs with no terminal Result and a snapshot that is
\* corrupt or partially written, the session reaches Active with index 0, no
\* answers, no marks and the full time budget.
C10_BadSnapshotDiscarded ==
  [][(/\ loadKind = "none" /\ loadKind' # "none" /\ lsResult.kind = "none"
      /\ lsState.kind # "none" /\ ~WellFormedState(lsState)) =>
       /\ Phase' = "Active"
       /\ current' = 0
       /\ answers' = EmptyAnswers
       /\ markedForReview' = << >>
       /\ seconds' = TOTAL_TIME_SECONDS]_vars

\* C11: in an Active session each mutating operation whose snapshot write
\* fails still makes its whole in-memory change and leaves the session Active:
\* navigation moves the index, selecting records the answer, the mark is
\* toggled, clearing removes the answer, save-and-next moves to the next
\* question.
C11_SnapshotFailureNonFatal ==
  Phase = "Active" =>
    /\ current < N - 1 =>
         ENABLED (NextBtnSaveThrows /\ current' = current + 1 /\ Phase' = "Active")
    /\ current > 0 =>
         ENABLED (PrevBtnSaveThrows /\ current' = current - 1 /\ Phase' = "Active")
    /\ \A val \in QUESTIONS[current + 1].opts :
         ENABLED (/\ SelectOptionSaveThrows(val)
                  /\ answers' = Put(answers, Qid(current), Str(val))
                  /\ Phase' = "Active")
    /\ ENABLED (/\ MarkReviewBtnSaveThrows
                /\ Has(markedForReview', current) # Has(markedForReview, current)
                /\ Phase' = "Active")
    /\ ENABLED (/\ ClearBtnSaveThrows
                /\ Qid(current) \notin DOMAIN answers'
                /\ Phase' = "Active")
    /\ current < N - 1 =>
         ENABLED (SaveNextBtnSaveThrows /\ current' = current + 1 /\ Phase' = "Active")

\* C12: once the session is Submitted, by submitQuiz on this page or by a
\* stored Result, no step taken on the page (a click on any control, a timer
\* tick, an auth callback) changes the index, the answers, the marked set, the
\* remaining time, the persisted snapshot or the stored Result.
C12_SubmittedIsFrozen ==
  [][Phase = "Submitted" /\ page' = "running" =>
       UNCHANGED << current, answers, markedForReview, seconds, lsState, lsResult >>]_vars

\* C12 witness: a session submitted on this page while time was left, holding
\* an answer and a mark, its handlers still attached.
C12_Witness ==
  /\ Phase = "Submitted" /\ submitCalls = 1 /\ listeners
  /\ seconds = 1 /\ answers # EmptyAnswers /\ markedForReview # << >>

\* The store as a page load must find it to start a fresh SessionState: no
\* terminal Result, and no snapshot that restores anything.
StartsFresh ==
  /\ ~InitQuizThrows
  /\ ~TerminalResult(lsResult)
  /\ lsState.kind = "json" =>
       /\ RestoreCurrent(lsState) = 0
       /\ RestoreAnswers(lsState) = EmptyAnswers
       /\ RestoreMarked(lsState) = << >>
       /\ RestoreSeconds(lsState) = TOTAL_TIME_SECONDS

\* C13 (second half): no step taken on the page leads out of Submitted.
C13_NoOtherWayOut ==
  [][Phase = "Submitted" /\ page' = "running" => Phase' = "Submitted"]_vars

\* C13: the re-attempt of a session submitted on this page (location.reload(),
\* the handler of the Re-Attempt button) leads to a fresh SessionState, that
\* is, it leaves a store from which the page starts Active at index 0 with no
\* answers, no marks and the full time; and no step taken on the page leads
\* out of Submitted.
C13_ReattemptStartsFresh ==
  /\ [][Phase = "Submitted" /\ submitCalls = 1 /\ page' = "script" => StartsFresh']_vars
  /\ C13_NoOtherWayOut

\* C14: a session never loads the answers that another user's session of the
\* quiz left in its snapshot in the same localStorage.  (Snapshots are all a
\* session persists: the page never writes a Result, see C4.)
C14_StoreScopedToUser ==
  [][(/\ loadKind = "none" /\ loadKind' = "resumed"
      /\ lsState.by # NoUser /\ lsState.answers # EmptyAnswers)
       => lsState.by = currentUser']_vars

\* C15: scoring never runs without a resolved user: an Active session has a
\* signed-in user, every submitQuiz call is made with one and writes one
\* record carrying that user's id, and every record in the attempt store
\* carries a user id.
C15_SubmitNeedsIdentity ==
  /\ [](/\ (Phase = "Active" => currentUser \in Users)
        /\ (attempts.count > 0 => attempts.last.userId \in Users))
  /\ [][submitCalls' > submitCalls =>
          /\ currentUser \in Users
          /\ attempts'.count = attempts.count + 1
          /\ attempts'.last.userId = currentUser]_vars

\* C15 witness: a record written by a submission of the signed-in user.
C15_Witness ==
  /\ submitCalls = 1 /\ attempts.count = 1
  /\ currentUser \in Users /\ attempts.last.userId = currentUser

\* The records of `questions` that have an answer, and those answered with
\* their correct index.
AnsweredRecords == { k \in 1..Len(questions) : questions[k].id \in DOMAIN answers }
RightRecords == { k \in AnsweredRecords : answers[questions[k].id] = questions[k].answer }

\* the sum of w[k] over the k in S
RECURSIVE SumOver(_, _)
SumOver(S, w) ==
  IF S = {} THEN 0
  ELSE LET k == CHOOSE x \in S : TRUE IN w[k] + SumOver(S \ {k}, w)

CorrectScores == [k \in 1..Len(questions) |-> questions[k].correct_score]
NegativeScores == [k \in 1..Len(questions) |-> questions[k].negative_score]

\* C16: the score is the sum of correct_score over the records answered with
\* their correct index minus the sum of negative_score over the records
\* answered otherwise; correct and wrong count those two groups, unattempted
\* counts the records with no answer.
C16_ScoringRule ==
  submitCalls > 0 =>
    /\ scored.score = SumOver(RightRecords, CorrectScores)
                        - SumOver(AnsweredRecords \ RightRecords, NegativeScores)
    /\ scored.correct = Cardinality(RightRecords)
    /\ scored.wrong = Cardinality(AnsweredRecords \ RightRecords)
    /\ scored.unattempted = Cardinality((1..Len(questions)) \ AnsweredRecords)

\* C16 witness: two questions at +3/-1, the first answered right and the
\* second wrong: score 2, counts 1/1/0.
C16_Witness ==
  /\ submitCalls > 0 /\ Len(questions) = 2
  /\ questions[1].correct_score = 3 /\ questions[1].negative_score = 1
  /\ RightRecords = {1} /\ AnsweredRecords = {1, 2}
  /\ scored.score = 2 /\ scored.correct = 1 /\ scored.wrong = 1 /\ scored.unattempted = 0

\* The answered records whose correct index is unset.
UnsetAnswered == { k \in AnsweredRecords : questions[k].answer = "" }

\* C17: an answered record whose correct index is unset adds no correct_score
\* and no correct count, whatever option was chosen: the correct count and the
\* score are at most what the other answered records can give, with every such
\* record counted wrong.
C17_UnsetNeverCorrect ==
  submitCalls > 0 =>
    /\ scored.correct <= Cardinality(AnsweredRecords \ UnsetAnswered)
    /\ scored.wrong >= Cardinality(UnsetAnswered)
    /\ scored.score <= SumOver(AnsweredRecords \ UnsetAnswered, CorrectScores)
                         - SumOver(UnsetAnswered, NegativeScores)

\* C17 witness: a record without a correct index answered next to a record
\* answered right.
C17_Witness ==
  /\ submitCalls > 0 /\ UnsetAnswered # {} /\ RightRecords # {}
  /\ scored.correct = 1 /\ scored.wrong = Cardinality(UnsetAnswered)

\* C18: the accuracy, in tenths of a percent, is the number of tenths nearest
\* to correctCount / answeredCount * 100, and 0.0 when nothing was answered.
C18_Accuracy ==
  submitCalls > 0 =>
    LET a == Cardinality(AnsweredRecords)
        c == Cardinality(RightRecords)
    IN IF a = 0 THEN scored.accuracy = 0
       ELSE /\ 2 * (scored.accuracy * a - 1000 * c) <= a
            /\ 2 * (1000 * c - scored.accuracy * a) <= a

\* C18 witness: two of three answers right, 66.7.
C18_Witness ==
  /\ submitCalls > 0 /\ Cardinality(AnsweredRecords) = 3 /\ Cardinality(RightRecords) = 2
  /\ scored.accuracy = 667

Outcomes == { [score |-> 6, timeTaken |-> 2], [score |-> 3, timeTaken |-> 2],
              [score |-> 3, timeTaken |-> 1] }

AttemptsOf(user, outs) ==
  [k \in 1..Len(outs) |->
     [userId |-> user, score |-> outs[k].score, timeTaken |-> outs[k].timeTaken]]

Store(first, second) ==
  [u \in {BoardUsers[1] : x \in {1} \cap 1..Len(first)}
           \cup {BoardUsers[2] : x \in {1} \cap 1..Len(second)} |->
     IF u = BoardUsers[1] THEN AttemptsOf(u, first) ELSE AttemptsOf(u, second)]

InitLeaderboard ==
  /\ page = "running"
  /\ currentUser \in Users
  /\ lsUid = currentUser
  /\ current = 0
  /\ answers = EmptyAnswers
  /\ markedForReview = << >>
  /\ seconds = TOTAL_TIME_SECONDS
  /\ timerInterval = TRUE
  /\ quizInitialized = TRUE
  /\ shown = {"quizCard", "quizContainer", "quizHeader", "floatBar"}
  /\ listeners = TRUE
  /\ results = << >>
  /\ submitCalls = 0
  /\ loadKind = "fresh"
  /\ abandonedAt = TOTAL_TIME_SECONDS
  /\ lsState = NoState
  /\ lsResult = NoResult
  /\ attempts = [count |-> 0, last |-> NoPayload]
  /\ questions = QUESTIONS
  /\ scored = NoScore
  /\ content = << >>
  /\ parsed = NotParsed
  /\ \E two \in { S \in SUBSET Outcomes : Cardinality(S) = 2 }, n \in 0..MaxResults,
        m \in 0..1 :
       \E first \in [1..n -> two], second \in [1..m -> two] : data = Store(first, second)
  /\ leaderboardBody = NoBody
  /\ isQuiz = FALSE
  /\ optionClasses = NoClasses
  /\ conversation = NoConversation
  /\ user_data = NoUserData
  /\ quizzes = << >>

\* leaderboardBtn (828) and the Leaderboard button of the results (781)
ShowLeaderboard ==
  /\ "leaderboardModal" \notin shown
  /\ leaderboardBody' =
       IF data = NoData THEN [none |-> TRUE, entries |-> << >>]
       ELSE [none |-> FALSE, entries |-> Slice(Sort(AllAttempts(data, 1)))]
  /\ shown' = shown \cup {"leaderboardModal"}
  /\ UNCHANGED << page, currentUser, current, answers, markedForReview, seconds,
                  timerInterval, quizInitialized, listeners, results, lsState, lsResult,
                  lsUid, attempts, submitCalls, loadKind, abandonedAt, scoringVars,
                  parserVars, data, feedbackVars, botVars >>

NextLeaderboard == ShowLeaderboard

SpecLeaderboard == InitLeaderboard /\ [][NextLeaderboard]_vars

\* ------------------------------------------------ feedback on its own
\* An Active page in either mode over two questions with two options each,
\* whose answer keys are what parse_txt_file can give them: none, an option
\* that is there, or a letter beyond the options.
FeedbackKeys == { "", "1", "2", "3" }

\* showFeedback(q, val) (572-585): the children of el("options") are the
\* rendered options, idx1 their position
ShowFeedback(q, val) ==
  [correct |-> { p \in 1..Cardinality(q.opts) : q.answer = Str(p) },
   wrong |-> { p \in 1..Cardinality(q.opts) : q.answer # Str(p) /\ Str(val) = Str(p) }]

InitFeedback ==
  /\ page = "running"
  /\ currentUser \in Users
  /\ lsUid = currentUser
  /\ current = 0
  /\ answers = EmptyAnswers
  /\ markedForReview = << >>
  /\ seconds = TOTAL_TIME_SECONDS
  /\ timerInterval = TRUE
  /\ quizInitialized = TRUE
  /\ shown = {"quizCard", "quizContainer", "quizHeader", "floatBar"}
  /\ listeners = TRUE
  /\ results = << >>
  /\ submitCalls = 0
  /\ loadKind = "fresh"
  /\ abandonedAt = TOTAL_TIME_SECONDS
  /\ lsState = SaveQuizState
  /\ lsResult = NoResult
  /\ attempts = [count |-> 0, last |-> NoPayload]
  /\ \E key \in [1..2 -> FeedbackKeys] : questions = QuestionList(2, << 3, 1 >>, key)
  /\ scored = NoScore
  /\ content = << >>
  /\ parsed = NotParsed
  /\ data = NoData
  /\ leaderboardBody = NoBody
  /\ isQuiz = FALSE
  /\ optionClasses = NoClasses
  /\ conversation = NoConversation
  /\ user_data = NoUserData
  /\ quizzes = << >>

FrameInMode == UNCHANGED << page, currentUser, quizInitialized, listeners, results, lsResult,
                            lsUid, loadKind, abandonedAt, scoringVars, parserVars, boardVars,
                            botVars, markedForReview, seconds, timerInterval, attempts,
                            submitCalls, shown >>

\* renderQuestion(i) (535-560) rebuilds the options (544), which drops their
\* classes
RenderQuestionInMode(i) ==
  /\ current' = i
  /\ optionClasses' = NoClasses
  /\ lsState' = SaveQuizState'

\* modeToggle (823-827)
ModeToggle ==
  /\ Bound("quizHeader")
  /\ FrameInMode
  /\ isQuiz' = ~isQuiz
  /\ UNCHANGED answers
  /\ RenderQuestionInMode(current)

\* nextBtn (793) and prevBtn (794)
NextBtnInMode ==
  /\ Bound("floatBar")
  /\ FrameInMode
  /\ UNCHANGED << answers, isQuiz >>
  /\ IF current < Len(questions) - 1 THEN RenderQuestionInMode(current + 1)
                                     ELSE UNCHANGED << current, optionClasses, lsState >>

PrevBtnInMode ==
  /\ Bound("floatBar")
  /\ FrameInMode
  /\ UNCHANGED << answers, isQuiz >>
  /\ IF current > 0 THEN RenderQuestionInMode(current - 1)
                    ELSE UNCHANGED << current, optionClasses, lsState >>

\* selectOption (562-570) with showFeedback (567)
SelectOptionInMode(val) ==
  /\ Bound("quizCard")
  /\ FrameInMode
  /\ val \in questions[current + 1].opts
  /\ answers' = Put(answers, questions[current + 1].id, Str(val))
  /\ optionClasses' = IF isQuiz THEN ShowFeedback(questions[current + 1], val)
                                ELSE optionClasses
  /\ UNCHANGED << current, isQuiz >>
  /\ lsState' = SaveQuizState'

NextFeedback ==
  \/ ModeToggle
  \/ NextBtnInMode
  \/ PrevBtnInMode
  \/ \E val \in 1..5 : SelectOptionInMode(val)

SpecFeedback == InitFeedback /\ [][NextFeedback]_vars

\* ------------------------------------------- the parser on formatted blocks
\* parse_txt_file on one block in one of the formats the bot announces (the
\* help text, 1002-1018): a numbered or labelled question line, 2 to 5 option
\* lines lettered in order, up to MaxAnswerLines answer lines, and possibly
\* an explanation line.
Formats == {"A", "B", "dotted"}

QuestionLine(fmt) ==
  IF fmt = "B" THEN StartLine("Q.1 Capital of France?", "Capital of France?")
  ELSE StartLine("1. What is 2+2?", "What is 2+2?")

OptionBodies(fmt) ==
  IF fmt = "B" THEN << "Paris", "London", "Rome", "Oslo", "Bern" >>
  ELSE << "3", "4", "5", "6", "7" >>

OptionMarker(fmt, k) ==
  CASE fmt = "A" -> Letters[k] \o ") "
    [] fmt = "B" -> "(" \o Letters[k] \o ") "
    [] OTHER -> Letters[k] \o ". "

OptionLines(fmt, n) ==
  [k \in 1..n |-> MarkerLine(OptionMarker(fmt, k) \o OptionBodies(fmt)[k])]

AnswerForms == {"correct", "paren", "plain"}

AnswerText(form, x) ==
  CASE form = "correct" -> "Correct option:-" \o x
    [] form = "paren" -> "Answer: (" \o x \o ")"
    [] OTHER -> "Answer: " \o x

LowerAnswerLines ==
  { AnswerLine(AnswerText(form, Letters[k]), Letters[k]) : form \in AnswerForms, k \in 1..5 }

AnswerLines ==
  LowerAnswerLines \cup
  { AnswerLine(AnswerText(form, Capitals[k]), Capitals[k]) : form \in AnswerForms, k \in 1..5 }

\* the answer lines of a block: the first in either case, the others in lower
\* case
AnswerRuns(m) ==
  { ans \in [1..m -> AnswerLines] : \A j \in 2..m : ans[j] \in LowerAnswerLines }

ExLines == { << >>, << ExLine("ex: Basic arithmetic", "Basic arithmetic") >> }

InitFormat ==
  /\ page = "script"
  /\ currentUser = NoUser
  /\ current = 0
  /\ answers = EmptyAnswers
  /\ markedForReview = << >>
  /\ seconds = TOTAL_TIME_SECONDS
  /\ timerInterval = FALSE
  /\ quizInitialized = FALSE
  /\ shown = {"loadingMessage", "quizCard"}
  /\ listeners = FALSE
  /\ results = << >>
  /\ submitCalls = 0
  /\ loadKind = "none"
  /\ abandonedAt = TOTAL_TIME_SECONDS
  /\ lsState = NoState
  /\ lsResult = NoResult
  /\ lsUid = NoUser
  /\ attempts = [count |-> 0, last |-> NoPayload]
  /\ questions = QUESTIONS
  /\ scored = NoScore
  /\ \E fmt \in Formats, n \in 2..5, m \in 0..MaxAnswerLines, ex \in ExLines :
       \E ans \in AnswerRuns(m) :
         content = << QuestionLine(fmt) >> \o OptionLines(fmt, n) \o ans \o ex
  /\ parsed = NotParsed
  /\ data = NoData
  /\ leaderboardBody = NoBody
  /\ isQuiz = FALSE
  /\ optionClasses = NoClasses
  /\ conversation = NoConversation
  /\ user_data = NoUserData
  /\ quizzes = << >>

NextFormat == ParseTxtFileCall

SpecFormat == InitFormat /\ [][NextFormat]_vars

\* --------------------------------------------------------------- claims, continued
\* the option slots of record q that are not empty
OptionSlots(q) ==
  { k \in 1..5 : << q.option_1, q.option_2, q.option_3, q.option_4, q.option_5 >>[k] # "" }

\* C20: no record the parser returns has fewer than 2 non-empty option slots.
C20_TwoOptionsAtLeast ==
  \A k \in 1..Len(parsed.questions) : Cardinality(OptionSlots(parsed.questions[k])) >= 2

\* C21: every record the parser emits with a correct index set has that index
\* within 1..(number of populated options), so it names a present option.
C21_AnswerWithinOptions ==
  \A k \in 1..Len(parsed.questions) :
    LET q == parsed.questions[k]
    IN q.answer # "" => \E j \in 1..Cardinality(OptionSlots(q)) : Str(j) = q.answer

\* the format of the block in content, told by its first option line
BlockFormat == CHOOSE fmt \in Formats : content[2] = OptionLines(fmt, 1)[1]

\* C22: each populated option of a record parsed from a formatted block holds
\* the option line with its marker stripped: '3' for 'a) 3', 'Paris' for
\* '(a) Paris'.
C22_OptionMarkerStripped ==
  \A k \in 1..Len(parsed.questions) :
    LET q == parsed.questions[k]
    IN \A j \in OptionSlots(q) :
         << q.option_1, q.option_2, q.option_3, q.option_4, q.option_5 >>[j]
           = OptionBodies(BlockFormat)[j]

\* the letters, as indices 1..5, the answer lines of content are written with,
\* in the order of the lines
WrittenIndex(text) ==
  CHOOSE k \in 1..5 :
    \E form \in AnswerForms : text \in {AnswerText(form, Letters[k]), AnswerText(form, Capitals[k])}

WrittenAnswers ==
  LET ls == SelectSeq(content, LAMBDA l : \E form \in AnswerForms, k \in 1..5 :
                          l.text \in {AnswerText(form, Letters[k]), AnswerText(form, Capitals[k])})
  IN [j \in 1..Len(ls) |-> WrittenIndex(ls[j].text)]

\* C23: a formatted block whose only answer line follows the options and reads
\* 'Correct option:-x', 'Answer: (x)' or 'Answer: x', x a letter a..e in
\* either case, is emitted with correct index 1 for a, 2 for b, 3 for c, 4 for
\* d, 5 for e.
C23_AnswerLetterMapping ==
  (parsed.done /\ Len(WrittenAnswers) = 1) =>
    /\ Len(parsed.questions) = 1
    /\ parsed.questions[1].answer = Str(WrittenAnswers[1])

C23_Witness ==
  /\ parsed.done
  /\ Len(parsed.questions) = 1
  /\ Len(WrittenAnswers) = 1
  /\ \E i \in 1..Len(content) : content[i].text = "Answer: E"
  /\ parsed.questions[1].answer = "5"

\* C24: when a block has several answer lines after its options, the record's
\* correct index is the one the first of them gives.
C24_FirstAnswerLineWins ==
  (parsed.done /\ Len(WrittenAnswers) >= 1) =>
    /\ Len(parsed.questions) = 1
    /\ parsed.questions[1].answer = Str(WrittenAnswers[1])

\* the blocks of c[i..] by the rule of the claim: a blank line ends a block,
\* a line that begins as a question ('N. ...' or 'Q.N ...') ends it and begins
\* the next
RECURSIVE BlocksByRule(_, _, _)
BlocksByRule(c, i, cur) ==
  IF i > Len(c) THEN << cur >>
  ELSE IF c[i].text = "" THEN << cur >> \o BlocksByRule(c, i + 1, << >>)
  ELSE IF c[i].start THEN << cur >> \o BlocksByRule(c, i + 1, << c[i] >>)
  ELSE BlocksByRule(c, i + 1, Append(cur, c[i]))

\* C25: the parser splits the text into blocks exactly at blank lines and at
\* the start of each line that begins as a question, and never in the middle
\* of a line.
C25_BlockBoundaries ==
  parsed.done =>
    /\ \A b \in 1..Len(parsed.blocks) : ~parsed.blocks[b][1].inside
    /\ (\A i \in 1..Len(content) : ~content[i].inside) =>
         parsed.blocks = SelectSeq(BlocksByRule(content, 1, << >>), LAMBDA b : b # << >>)

\* a ranks strictly above b: a higher score, or the same score in less time
RanksAbove(a, b) == a.score > b.score \/ (a.score = b.score /\ a.timeTaken < b.timeTaken)

\* C26: of two adjacent entries of the ranked view the earlier has a strictly
\* higher score, or the same score and a time taken no longer than the later
\* one's.
C26_LeaderboardOrder ==
  \A k \in 1..(Len(leaderboardBody.entries) - 1) :
    LET a == leaderboardBody.entries[k]
        b == leaderboardBody.entries[k + 1]
    IN a.score > b.score \/ (a.score = b.score /\ a.timeTaken <= b.timeTaken)

C26_Witness ==
  /\ "leaderboardModal" \in shown
  /\ \E k \in 1..(Len(leaderboardBody.entries) - 1) :
       /\ leaderboardBody.entries[k].score = leaderboardBody.entries[k + 1].score
       /\ leaderboardBody.entries[k].timeTaken < leaderboardBody.entries[k + 1].timeTaken
  /\ \E i, j \in 1..Len(AllAttempts(data, 1)) :
       i < j /\ RanksAbove(AllAttempts(data, 1)[j], AllAttempts(data, 1)[i])

\* how many times attempt a occurs in s
Count(s, a) == Cardinality({ k \in 1..Len(s) : s[k] = a })

\* C27: the ranked view is drawn from the attempts of all users, holds
\* min(10, number of attempts) entries, and no attempt left out ranks strictly
\* above one that is in.
C27_LeaderboardMembership ==
  "leaderboardModal" \in shown =>
    LET all == AllAttempts(data, 1)
        top == leaderboardBody.entries
    IN /\ Len(top) = IF Len(all) < 10 THEN Len(all) ELSE 10
       /\ \A k \in 1..Len(top) : Count(top, top[k]) <= Count(all, top[k])
       /\ \A i \in 1..Len(all), k \in 1..Len(top) :
            Count(top, all[i]) < Count(all, all[i]) => ~RanksAbove(all[i], top[k])

C27_Witness ==
  /\ "leaderboardModal" \in shown
  /\ Len(AllAttempts(data, 1)) > 10
  /\ Len(leaderboardBody.entries) = 10
  /\ \E j, k \in 1..10 : /\ leaderboardBody.entries[j].userId = BoardUsers[1]
                         /\ leaderboardBody.entries[k].userId = BoardUsers[2]
  /\ \E i \in 1..Len(AllAttempts(data, 1)) :
       Count(leaderboardBody.entries, AllAttempts(data, 1)[i])
         < Count(AllAttempts(data, 1), AllAttempts(data, 1)[i])

\* C28: on an Active page the current index is within 0..N-1; Prev at index 0
\* and Next and Save & Next at index N-1 leave it where it is; and a step that
\* navigates (Next, Prev, Save & Next, a palette button) leaves the answers,
\* the marked set and the remaining time alone.
C28_CurrentIndex ==
  /\ [](Phase = "Active" => current \in 0..(N - 1))
  /\ [][/\ (PrevBtn /\ current = 0) => current' = current
        /\ ((NextBtn \/ SaveNextBtn) /\ current = N - 1) => current' = current
        /\ (NextBtn \/ PrevBtn \/ SaveNextBtn \/ \E i \in 0..(N - 1) : PaletteQbtn(i))
             => UNCHANGED << answers, markedForReview, seconds >>]_vars

\* C28 witness: an Active page at the last question, reached by navigation,
\* with an answer held.
C28_Witness ==
  /\ Phase = "Active" /\ loadKind = "fresh"
  /\ current = N - 1
  /\ answers # EmptyAnswers
  /\ lsState = SaveQuizState

\* C29: the answers hold one chosen option per question identifier, each a
\* populated option slot of its question; selecting an option on the current
\* question sets that question's answer, over any earlier one, and leaves the
\* other questions' answers as they were.
C29_AnswersInvariant ==
  /\ [](\A id \in DOMAIN answers :
          \E k \in 1..N : QUESTIONS[k].id = id
                            /\ answers[id] \in { Str(v) : v \in QUESTIONS[k].opts })
  /\ [][\A val \in 1..5 : SelectOption(val) =>
          /\ DOMAIN answers' = DOMAIN answers \cup {Qid(current)}
          /\ answers'[Qid(current)] = Str(val)
          /\ \A id \in DOMAIN answers \ {Qid(current)} : answers'[id] = answers[id]]_vars

\* C29 witness: the first question, restored with option 1 chosen, now holds
\* option 2, and the second question is answered as well.
C29_Witness ==
  /\ Phase = "Active" /\ loadKind = "resumed"
  /\ DOMAIN answers = {"50001", "50002"}
  /\ answers["50001"] = "2"

\* C30: the Mark for Review button adds the current question to the marked set
\* when it is absent and removes it when it is present, so that two toggles in
\* a row give the marked set back; a toggle changes neither the answers, nor
\* the current index, nor the remaining time.
C30_ToggleMarkSymmetric ==
  /\ [](\A i \in 0..(N - 1) :
          ToSet(ToggleMark(ToggleMark(markedForReview, i), i)) = ToSet(markedForReview))
  /\ [][MarkReviewBtn =>
          /\ ToSet(markedForReview') =
               IF current \in ToSet(markedForReview)
                 THEN ToSet(markedForReview) \ {current}
                 ELSE ToSet(markedForReview) \cup {current}
          /\ UNCHANGED << answers, current, seconds >>]_vars

\* C30 witness: an Active page where both questions were marked, the second
\* first, with an answer held and time gone.
C30_Witness ==
  /\ Phase = "Active"
  /\ markedForReview = << 1, 0 >>
  /\ answers # EmptyAnswers
  /\ seconds < TOTAL_TIME_SECONDS

\* C31: the Clear button removes the current question's entry from the
\* answers, which changes nothing there when the question is unanswered, and
\* leaves every other question's answer, the marked set, the current index and
\* the remaining time as they were.
C31_ClearAnswerFrame ==
  [][ClearBtn =>
       /\ DOMAIN answers' = DOMAIN answers \ {Qid(current)}
       /\ \A id \in DOMAIN answers' : answers'[id] = answers[id]
       /\ UNCHANGED << markedForReview, current, seconds >>]_vars

\* C31 witness: a resumed page on the first question, whose restored answer
\* is gone while the second question's answer and a mark are held.
C31_Witness ==
  /\ Phase = "Active" /\ loadKind = "resumed"
  /\ current = 0
  /\ DOMAIN answers = {"50002"}
  /\ markedForReview # << >>
  /\ lsState = SaveQuizState

\* the correct index of the current question, for an answer key that is set
CorrectIndex == CHOOSE c \in 1..5 : Str(c) = questions[current + 1].answer

\* C32: in Quiz mode, once an option v is selected on a question whose
\* correct index is c, the option at c and no other is marked correct, the
\* option at v is marked wrong exactly when v differs from c, and nothing else
\* is marked; in Test mode no option is marked.
C32_ImmediateFeedback ==
  /\ [](~isQuiz => optionClasses = NoClasses)
  /\ [][\A val \in 1..5 :
          (SelectOptionInMode(val) /\ isQuiz /\ questions[current + 1].answer # "") =>
            /\ optionClasses'.correct = {CorrectIndex}
            /\ optionClasses'.wrong = {val} \ {CorrectIndex}]_vars

\* The same for the questions whose correct index names an option that is
\* there; this holds.
C32_FeedbackOnPresentOption ==
  /\ [](~isQuiz => optionClasses = NoClasses)
  /\ [][\A val \in 1..5 :
          (/\ SelectOptionInMode(val) /\ isQuiz
           /\ questions[current + 1].answer \in { Str(p) : p \in questions[current + 1].opts }) =>
            /\ optionClasses'.correct = {CorrectIndex}
            /\ optionClasses'.wrong = {val} \ {CorrectIndex}]_vars

\* C36: in every Result submitQuiz produces, correct + wrong + unattempted is
\* the number of questions, and none of the three counts is negative.
C36_CountsPartition ==
  submitCalls > 0 =>
    /\ scored.correct + scored.wrong + scored.unattempted = Len(questions)
    /\ scored.correct >= 0 /\ scored.wrong >= 0 /\ scored.unattempted >= 0

\* C36 witness: three questions, one answered right, one wrong, one left.
C36_Witness ==
  /\ submitCalls > 0 /\ Len(questions) = 3
  /\ scored.correct = 1 /\ scored.wrong = 1 /\ scored.unattempted = 1

\* C37: in every Active state the 'Unattempted' count of the palette summary
\* is the number of questions that have no answer, and is never negative.
\* Line 865 also takes the marked questions off the count.
C37_UnattemptedCount ==
  Phase = "Active" =>
    /\ HighlightPalette.notAttempted =
         Cardinality({ i \in 0..(N - 1) : Qid(i) \notin DOMAIN answers })
    /\ HighlightPalette.notAttempted >= 0

\* C37 (supplementary): what the summary line does show: the count is the
\* questions without an answer less the marked ones.
C37_UnattemptedLessMarked ==
  Phase = "Active" =>
    HighlightPalette.notAttempted =
      Cardinality({ i \in 0..(N - 1) : Qid(i) \notin DOMAIN answers })
        - HighlightPalette.marked

\* ------------------------------------------------ option collection on its own
\* parse_txt_file on one block: a numbered question line and up to
\* MaxOptionLines lines after it, each an option-marker line, a line of plain
\* text, an answer line or an explanation line.  The texts differ by position,
\* and the letters of the marker lines are out of order.
OptionShapes == {"marker", "text", "answer", "ex"}

OptionMarks == << "c) ", "(a) ", "E. ", "b) ", "(d) ", "A. ", "e) ", "(C) ", "d. " >>
OptionWords == << "one", "two", "three", "four", "five", "six", "seven", "eight", "nine" >>
SecondWords == << "ek", "do", "teen", "char", "paanch", "chhah", "saat", "aath", "nau" >>

\* the line of the given shape at position j after the question line
OptionLine(shape, j) ==
  CASE shape = "marker" -> MarkerLine(OptionMarks[j] \o OptionWords[j])
    [] shape = "text" -> TextLine(SecondWords[j])
    [] shape = "answer" -> AnswerLine("Answer: (b)", "b")
    [] OTHER -> ExLine("ex: Seat of government", "Seat of government")

InitOptions ==
  /\ page = "script"
  /\ currentUser = NoUser
  /\ current = 0
  /\ answers = EmptyAnswers
  /\ markedForReview = << >>
  /\ seconds = TOTAL_TIME_SECONDS
  /\ timerInterval = FALSE
  /\ quizInitialized = FALSE
  /\ shown = {"loadingMessage", "quizCard"}
  /\ listeners = FALSE
  /\ results = << >>
  /\ submitCalls = 0
  /\ loadKind = "none"
  /\ abandonedAt = TOTAL_TIME_SECONDS
  /\ lsState = NoState
  /\ lsResult = NoResult
  /\ lsUid = NoUser
  /\ attempts = [count |-> 0, last |-> NoPayload]
  /\ questions = QUESTIONS
  /\ scored = NoScore
  /\ \E n \in 2..MaxOptionLines : \E shape \in [1..n -> OptionShapes] :
       content = << StartLine("1. Capital of India?", "Capital of India?") >>
                   \o [j \in 1..n |-> OptionLine(shape[j], j)]
  /\ parsed = NotParsed
  /\ data = NoData
  /\ leaderboardBody = NoBody
  /\ isQuiz = FALSE
  /\ optionClasses = NoClasses
  /\ conversation = NoConversation
  /\ user_data = NoUserData
  /\ quizzes = << >>

NextOptions == ParseTxtFileCall

SpecOptions == InitOptions /\ [][NextOptions]_vars

\* --------------------------------------------------------------- claims, continued
\* the option slots of record q, in order
OptionTexts(q) == << q.option_1, q.option_2, q.option_3, q.option_4, q.option_5 >>

\* the first option-marker line of content, where option collection begins
\* (past the end when there is none)
FirstMarker ==
  IF \E i \in 1..Len(content) : content[i].marker
    THEN CHOOSE i \in 1..Len(content) :
           content[i].marker /\ \A j \in 1..(i - 1) : ~content[j].marker
    ELSE Len(content) + 1

\* the first answer or explanation line after it (past the end when none)
FirstStop ==
  IF \E i \in FirstMarker..Len(content) : content[i].stop
    THEN CHOOSE i \in FirstMarker..Len(content) :
           content[i].stop /\ \A j \in FirstMarker..(i - 1) : ~content[j].stop
    ELSE Len(content) + 1

\* the option-marker lines from the first one up to the first answer or
\* explanation line
MarkersBeforeStop == { i \in FirstMarker..(FirstStop - 1) : content[i].marker }

\* the k-th of them
NthMarker(k) ==
  CHOOSE i \in MarkersBeforeStop :
    Cardinality({ j \in MarkersBeforeStop : j <= i }) = k

\* line i is a Continuation: not a marker, answer or explanation line
IsContinuation(i) == i <= Len(content) /\ ~content[i].marker /\ ~content[i].stop

\* the number of options collected: the marker lines before the first answer
\* or explanation line, 5 at most
Collected == IF Cardinality(MarkersBeforeStop) < 5 THEN Cardinality(MarkersBeforeStop) ELSE 5

\* C34: an option's text is its option-marker line, joined by '<br>' with the
\* line right after it when that line is a Continuation and with nothing
\* else; later Continuation lines go to no option, and collection stops at
\* the first answer or explanation line or after 5 options.
C34_BilingualOptionText ==
  parsed.done =>
    \A r \in 1..Len(parsed.questions) :
      LET q == parsed.questions[r]
      IN /\ \A k \in 1..Collected :
              LET i == NthMarker(k)
              IN OptionTexts(q)[k] =
                   IF IsContinuation(i + 1)
                     THEN content[i].text \o "<br>" \o content[i + 1].text
                     ELSE content[i].text
         /\ \A k \in (Collected + 1)..5 : OptionTexts(q)[k] = ""

\* C34 witness: a record whose first option took the Continuation after its
\* marker line while a second Continuation went to no option, and a marker
\* line after an answer line was not collected.
C34_Witness ==
  /\ parsed.done /\ Len(parsed.questions) = 1
  /\ Len(content) = 7
  /\ content[2].marker /\ IsContinuation(3) /\ IsContinuation(4) /\ content[5].marker
  /\ content[6].answer # "" /\ content[7].marker
  /\ parsed.questions[1].option_1 = "c) one<br>do"
  /\ parsed.questions[1].option_2 = "b) four"
  /\ parsed.questions[1].option_3 = ""

\* C35: in every emitted record the populated option slots are 1..k for some
\* k <= 5, and slot k holds the k-th option-marker line of the block (alone or
\* with the line after it), whatever letter that line carries.
C35_SlotsInOrder ==
  parsed.done =>
    \A r \in 1..Len(parsed.questions) :
      LET q == parsed.questions[r]
      IN /\ \E k \in 0..5 : OptionSlots(q) = 1..k
         /\ \A j \in 1..4 : OptionTexts(q)[j + 1] # "" => OptionTexts(q)[j] # ""
         /\ \A k \in OptionSlots(q) :
              \/ OptionTexts(q)[k] = content[NthMarker(k)].text
              \/ \E i \in 1..Len(content) :
                   OptionTexts(q)[k] = content[NthMarker(k)].text \o "<br>" \o content[i].text

\* C35 witness: six marker lines lettered c, a, E, b, d, A: the first five fill
\* slots 1..5 in that order.
C35_Witness ==
  /\ parsed.done /\ Len(parsed.questions) = 1
  /\ Len(content) = 7 /\ \A i \in 2..7 : content[i].marker
  /\ OptionTexts(parsed.questions[1]) =
       << "c) one", "(a) two", "E. three", "b) four", "(d) five" >>

\* ------------------------------------------------------ the bot's conversation
\* One user's conversation with the bot in one chat (ConversationHandler,
\* 1427-1459).  conversation.state is the state the handler keeps for the chat
\* (END: no conversation under way), reply the last message the bot sent;
\* accepted is history: what the conversation has stored so far.  user_data
\* is context.user_data, quizzes the HTML documents sent, each with the
\* question list it was generated from and the history of its conversation.

\* the files a user uploads, as the lines of their text: an empty file, prose,
\* a question without options, and a question with two options and an answer
Uploads ==
  { << >>,
    << TextLine("hello"), TextLine("world") >>,
    << StartLine("1. Capital of India?", "Capital of India?"),
       TextLine("Bharat ki rajdhani?"), TextLine("Delhi") >>,
    << StartLine("1. Capital of India?", "Capital of India?"),
       MarkerLine("a) Delhi"), MarkerLine("(b) Mumbai"), AnswerLine("Answer: (b)", "b") >> }

\* the texts a user types where a number is asked for
InputTexts == { "5", "0", "-1", "abc", "nan" }

\* the patterns of the CallbackQueryHandlers (1439, 1444, 1449)
TimeButtons == { "15", "20", "25", "30", "custom" }
MarksButtons == { "1", "2", "3", "4", "custom_marks" }
NegativeButtons == { "0", "0.25", "0.5", "1", "custom_negative" }

\* a conversion that raised ValueError
Raised == [ok |-> FALSE, nan |-> FALSE, value |-> 0, str |-> ""]

\* int(text) (1117) and str() of it (1120)
PyInt(text) ==
  CASE text = "5" -> [ok |-> TRUE, nan |-> FALSE, value |-> 5, str |-> "5"]
    [] text = "0" -> [ok |-> TRUE, nan |-> FALSE, value |-> 0, str |-> "0"]
    [] text = "-1" -> [ok |-> TRUE, nan |-> FALSE, value |-> 0 - 1, str |-> "-1"]
    [] OTHER -> Raised

\* float(text) (1169, 1210) and str() of it (1172, 1213): float() reads "nan"
\* as the float NaN
PyFloat(text) ==
  CASE text = "5" -> [ok |-> TRUE, nan |-> FALSE, value |-> 5, str |-> "5.0"]
    [] text = "0" -> [ok |-> TRUE, nan |-> FALSE, value |-> 0, str |-> "0.0"]
    [] text = "-1" -> [ok |-> TRUE, nan |-> FALSE, value |-> 0 - 1, str |-> "-1.0"]
    [] text = "nan" -> [ok |-> TRUE, nan |-> TRUE, value |-> 0, str |-> "nan"]
    [] OTHER -> Raised

\* x <= 0 and x < 0 in Python: every comparison with NaN is False
LeqZero(x) == ~x.nan /\ x.value <= 0
LessZero(x) == ~x.nan /\ x.value < 0

InitBot ==
  /\ page = "script"
  /\ currentUser = NoUser
  /\ current = 0
  /\ answers = EmptyAnswers
  /\ markedForReview = << >>
  /\ seconds = TOTAL_TIME_SECONDS
  /\ timerInterval = FALSE
  /\ quizInitialized = FALSE
  /\ shown = {"loadingMessage", "quizCard"}
  /\ listeners = FALSE
  /\ results = << >>
  /\ submitCalls = 0
  /\ loadKind = "none"
  /\ abandonedAt = TOTAL_TIME_SECONDS
  /\ lsState = NoState
  /\ lsResult = NoResult
  /\ lsUid = NoUser
  /\ attempts = [count |-> 0, last |-> NoPayload]
  /\ questions = QUESTIONS
  /\ scored = NoScore
  /\ content = << >>
  /\ parsed = NotParsed
  /\ data = NoData
  /\ leaderboardBody = NoBody
  /\ isQuiz = FALSE
  /\ optionClasses = NoClasses
  /\ conversation = NoConversation
  /\ user_data = NoUserData
  /\ quizzes = << >>

BotFrame ==
  UNCHANGED << page, currentUser, current, answers, markedForReview, seconds,
               timerInterval, quizInitialized, shown, listeners, results, lsState,
               lsResult, lsUid, attempts, submitCalls, loadKind, abandonedAt,
               scoringVars, parserVars, boardVars, feedbackVars >>

\* the handler returned `state` after storing what `kind` names
Accept(kind, state, reply) ==
  conversation' = [state |-> state, accepted |-> Append(conversation.accepted, kind),
                   reply |-> reply]

\* the handler returned the state the conversation is in
Stay(reply) == conversation' = [conversation EXCEPT !.reply = reply]

\* /start (996-1028), the entry point (1428): taken when no conversation is
\* under way
Start ==
  /\ conversation.state = "END"
  /\ Len(quizzes) < MaxQuizzes
  /\ conversation' = [state |-> "GETTING_FILE", accepted |-> << >>, reply |-> "welcome"]
  /\ UNCHANGED << user_data, quizzes >>
  /\ BotFrame

HandleDocumentKeepsEmpty(doc) ==
  /\ conversation.state = "GETTING_FILE"
  /\ user_data' = Put(Put(user_data, "questions", ParseTxtFile(doc)), "file_name", "quiz.txt")
  /\ Accept("questions", "GETTING_QUIZ_NAME", "parsed")
  /\ UNCHANGED quizzes
  /\ BotFrame

\* handle_document (1029-1061) on a .txt document (1431) whose text is doc
HandleDocument(doc) ==
  /\ conversation.state = "GETTING_FILE"
  /\ IF ParseTxtFile(doc) = << >>
       THEN Stay("could_not_parse") /\ UNCHANGED user_data
       ELSE /\ user_data' = Put(Put(user_data, "questions", ParseTxtFile(doc)),
                                "file_name", "quiz.txt")
            /\ Accept("questions", "GETTING_QUIZ_NAME", "parsed")
  /\ UNCHANGED quizzes
  /\ BotFrame

\* handle_document, the download or the decoding raising (1045-1047, 1062-1065)
HandleDocumentRaises ==
  /\ conversation.state = "GETTING_FILE"
  /\ Stay("error_reading")
  /\ UNCHANGED << user_data, quizzes >>
  /\ BotFrame

\* get_quiz_name (1068-1085)
GetQuizName(text) ==
  /\ conversation.state = "GETTING_QUIZ_NAME"
  /\ user_data' = Put(user_data, "name", text)
  /\ Accept("name", "GETTING_TIME", "select_time")
  /\ UNCHANGED quizzes
  /\ BotFrame

\* get_time (1087-1111)
GetTime(button) ==
  /\ conversation.state = "GETTING_TIME"
  /\ IF button = "custom"
       THEN Stay("enter_time") /\ UNCHANGED user_data
       ELSE user_data' = Put(user_data, "time", button)
            /\ Accept("time", "GETTING_MARKS", "select_marks")
  /\ UNCHANGED quizzes
  /\ BotFrame

\* get_time_custom (1113-1135)
GetTimeCustom(text) ==
  /\ conversation.state = "GETTING_TIME"
  /\ LET time_minutes == PyInt(text)
     IN IF ~time_minutes.ok \/ LeqZero(time_minutes)
          THEN Stay("invalid_time") /\ UNCHANGED user_data
          ELSE user_data' = Put(user_data, "time", time_minutes.str)
               /\ Accept("time", "GETTING_MARKS", "select_marks")
  /\ UNCHANGED quizzes
  /\ BotFrame

\* get_marks (1139-1163)
GetMarks(button) ==
  /\ conversation.state = "GETTING_MARKS"
  /\ IF button = "custom_marks"
       THEN Stay("enter_marks") /\ UNCHANGED user_data
       ELSE user_data' = Put(user_data, "marks", button)
            /\ Accept("marks", "GETTING_NEGATIVE", "select_negative")
  /\ UNCHANGED quizzes
  /\ BotFrame

\* get_marks_custom (1165-1189)
GetMarksCustom(text) ==
  /\ conversation.state = "GETTING_MARKS"
  /\ LET marks == PyFloat(text)
     IN IF ~marks.ok \/ LeqZero(marks)
          THEN Stay("invalid_marks") /\ UNCHANGED user_data
          ELSE user_data' = Put(user_data, "marks", marks.str)
               /\ Accept("marks", "GETTING_NEGATIVE", "select_negative")
  /\ UNCHANGED quizzes
  /\ BotFrame

\* get_negative (1191-1204)
GetNegative(button) ==
  /\ conversation.state = "GETTING_NEGATIVE"
  /\ IF button = "custom_negative"
       THEN Stay("enter_negative") /\ UNCHANGED user_data
       ELSE user_data' = Put(user_data, "negative", button)
            /\ Accept("negative", "GETTING_CREATOR", "enter_creator")
  /\ UNCHANGED quizzes
  /\ BotFrame

\* get_negative_custom (1206-1219)
GetNegativeCustom(text) ==
  /\ conversation.state = "GETTING_NEGATIVE"
  /\ LET negative == PyFloat(text)
     IN IF ~negative.ok \/ LessZero(negative)
          THEN Stay("invalid_negative") /\ UNCHANGED user_data
          ELSE user_data' = Put(user_data, "negative", negative.str)
               /\ Accept("negative", "GETTING_CREATOR", "enter_creator")
  /\ UNCHANGED quizzes
  /\ BotFrame

\* the document generate_html_quiz (232-994) makes of user_data, as sent at
\* 1273-1286
GenerateHtmlQuiz(ud, history) == [questions |-> ud["questions"], accepted |-> history]

\* get_creator (1221-1303).  outcome: "sent" (the document went out and the
\* cleanup ran, 1246-1294), "failed" (the try raised before the document was
\* sent), "failed_after" (it raised after, at 1289), "raised" (the summary
\* of 1226-1239 raised, outside the try: the handler returns no state and the
\* conversation keeps its own)
GetCreator(text, outcome) ==
  /\ conversation.state = "GETTING_CREATOR"
  /\ LET stored == Put(user_data, "creator", text)
         history == Append(conversation.accepted, "creator")
     IN CASE outcome = "sent" ->
               /\ quizzes' = Append(quizzes, GenerateHtmlQuiz(stored, history))
               /\ user_data' = NoUserData
               /\ Accept("creator", "END", "quiz")
          [] outcome = "failed_after" ->
               /\ quizzes' = Append(quizzes, GenerateHtmlQuiz(stored, history))
               /\ user_data' = stored
               /\ Accept("creator", "END", "error_generating")
          [] outcome = "failed" ->
               /\ quizzes' = quizzes
               /\ user_data' = stored
               /\ Accept("creator", "END", "error_generating")
          [] OTHER ->
               /\ quizzes' = quizzes
               /\ user_data' = stored
               /\ UNCHANGED conversation
  /\ BotFrame

\* cancel (1305-1310), a handler of every state (1432-1458)
Cancel ==
  /\ conversation.state # "END"
  /\ conversation' = [conversation EXCEPT !.state = "END", !.reply = "cancelled"]
  /\ user_data' = NoUserData
  /\ UNCHANGED quizzes
  /\ BotFrame

NextBot ==
  \/ Start
  \/ \E doc \in Uploads : HandleDocument(doc)
  \/ HandleDocumentRaises
  \/ \E text \in {"GK Test"} : GetQuizName(text)
  \/ \E button \in TimeButtons : GetTime(button)
  \/ \E text \in InputTexts : GetTimeCustom(text)
  \/ \E button \in MarksButtons : GetMarks(button)
  \/ \E text \in InputTexts : GetMarksCustom(text)
  \/ \E button \in NegativeButtons : GetNegative(button)
  \/ \E text \in InputTexts : GetNegativeCustom(text)
  \/ \E text \in {"Asha"}, outcome \in {"sent", "failed", "failed_after", "raised"} :
       GetCreator(text, outcome)
  \/ Cancel

SpecBot == InitBot /\ [][NextBot]_vars

\* --------------------------------------------------------------- claims, continued
\* the states of the conversation after the collection of the file
LaterStates ==
  { "GETTING_QUIZ_NAME", "GETTING_TIME", "GETTING_MARKS", "GETTING_NEGATIVE",
    "GETTING_CREATOR" }

\* C33: when the parser returns an empty list for an uploaded file the
\* conversation stays in the file-collection state and reports it; no later
\* state of the conversation and no generated quiz holds an empty question
\* list.
C33_NothingRecognized ==
  /\ [](/\ conversation.state \in LaterStates =>
             "questions" \in DOMAIN user_data /\ user_data["questions"] # << >>
        /\ \A k \in 1..Len(quizzes) : quizzes[k].questions # << >>)
  /\ [][\A doc \in Uploads :
          HandleDocument(doc) /\ ParseTxtFile(doc) = << >> =>
            /\ conversation'.state = "GETTING_FILE"
            /\ conversation'.reply = "could_not_parse"]_vars

\* C33 witness: a quiz was generated, and in the conversation that followed
\* an upload without questions was reported and left the bot waiting for a
\* file.
C33_Witness ==
  /\ Len(quizzes) = 1
  /\ conversation.state = "GETTING_FILE" /\ conversation.reply = "could_not_parse"

\* what a conversation accepts before its quiz is generated, in order
FullOrder == << "questions", "name", "time", "marks", "negative", "creator" >>

\* a text that is a number, and the number
NumberOf(text) ==
  CASE text = "5" -> [numeric |-> TRUE, value |-> 5]
    [] text = "0" -> [numeric |-> TRUE, value |-> 0]
    [] text = "-1" -> [numeric |-> TRUE, value |-> 0 - 1]
    [] OTHER -> [numeric |-> FALSE, value |-> 0]

\* a quiz is generated only by the step that ends a conversation which has
\* accepted the six inputs in order, the question list not empty
GeneratedInOrder ==
  quizzes' # quizzes =>
    /\ conversation.state = "GETTING_CREATOR" /\ conversation'.state = "END"
    /\ conversation'.accepted = FullOrder
    /\ quizzes' = Append(quizzes, quizzes'[Len(quizzes')])
    /\ quizzes'[Len(quizzes')].accepted = FullOrder
    /\ quizzes'[Len(quizzes')].questions # << >>

\* every step but the one that ends the conversation adds what the state it
\* leaves asks for, or nothing
AcceptedInOrder ==
  /\ conversation.state # "END" =>
       \E k \in 0..6 : conversation.accepted = SubSeq(FullOrder, 1, k)
  /\ conversation.state = "GETTING_FILE" => conversation.accepted = << >>
  /\ conversation.state = "GETTING_QUIZ_NAME" => conversation.accepted = SubSeq(FullOrder, 1, 1)
  /\ conversation.state = "GETTING_TIME" => conversation.accepted = SubSeq(FullOrder, 1, 2)
  /\ conversation.state = "GETTING_MARKS" => conversation.accepted = SubSeq(FullOrder, 1, 3)
  /\ conversation.state = "GETTING_NEGATIVE" => conversation.accepted = SubSeq(FullOrder, 1, 4)
  /\ conversation.state = "GETTING_CREATOR" => conversation.accepted = SubSeq(FullOrder, 1, 5)

CancelEnds == Cancel => conversation'.state = "END" /\ quizzes' = quizzes

\* C38: a quiz is generated only at the end of a conversation that accepted,
\* in order, a non-empty question list, a name, a time, marks, a negative
\* value and a creator; a custom input that is not a number, a time or marks
\* <= 0 and a negative value < 0 keep the conversation in its state; /cancel
\* ends it in any state and generates no quiz.
C38_ConversationOrdering ==
  /\ []AcceptedInOrder
  /\ [][GeneratedInOrder]_vars
  /\ [][CancelEnds]_vars
  /\ [][\A text \in InputTexts :
          /\ GetTimeCustom(text) /\ (~NumberOf(text).numeric \/ NumberOf(text).value <= 0)
               => conversation'.state = conversation.state
          /\ GetMarksCustom(text) /\ (~NumberOf(text).numeric \/ NumberOf(text).value <= 0)
               => conversation'.state = conversation.state
          /\ GetNegativeCustom(text) /\ (~NumberOf(text).numeric \/ NumberOf(text).value < 0)
               => conversation'.state = conversation.state]_vars

\* C38 (supplementary): the same with the custom inputs the handlers turn
\* down: those int() or float() raises on, and the numbers out of range.
C38_OrderingOfConvertedInputs ==
  /\ []AcceptedInOrder
  /\ [][GeneratedInOrder]_vars
  /\ [][CancelEnds]_vars
  /\ [][\A text \in InputTexts :
          /\ GetTimeCustom(text) /\ (~PyInt(text).ok \/ NumberOf(text).value <= 0)
               => conversation'.state = conversation.state
          /\ GetMarksCustom(text) /\ (~PyFloat(text).ok \/ (NumberOf(text).numeric /\ NumberOf(text).value <= 0))
               => conversation'.state = conversation.state
          /\ GetNegativeCustom(text) /\ (~PyFloat(text).ok \/ (NumberOf(text).numeric /\ NumberOf(text).value < 0))
               => conversation'.state = conversation.state]_vars

====
